---- MODULE Spec2Model ----
(***************************************************************************)
(* Laser input pipeline of the laser-game engine:                          *)
(*   - LaserInput.map_and_select (engine/input/laser_input.py), a pure     *)
(*     function of the detection map, the cap configuration, the active    *)
(*     transform, the mirror flag and the screen size (specification       *)
(*     SpecMap);                                                           *)
(*   - the frame loop of run_game (engine/app/loop.py) with the nested     *)
(*     calibration loop ColorTracker.auto_calibrate                        *)
(*     (engine/detect/color_tracker.py) and the calibration store          *)
(*     HomographyStore (engine/calib/homography.py) (specification Spec);  *)
(*   - one call of auto_calibrate with the history of what its iterations  *)
(*     saw (specification SpecCal);                                        *)
(*   - HomographyStore by itself: the file a save writes step by step and  *)
(*     what a load reads from it, over several runs of the program         *)
(*     (specification SpecStore).                                          *)
(***************************************************************************)
EXTENDS Integers, Sequences, FiniteSets, TLC

VARIABLES
    \* ---- LaserInput under SpecMap ----
    max_points_per_color, \* LaserInput.max_points_per_color (normalised dict)
    li_H,                 \* LaserInput.H: None or a 3x3 matrix
    li_mirror,            \* LaserInput.mirror
    cap_config,           \* the max_points argument the instance was built from
    detections,           \* argument of map_and_select: colour -> list of (x, y, intensity)
    screen_size,          \* argument of map_and_select: <<w, h>>
    out,                  \* value returned by map_and_select
    m_pc,                 \* "idle" | "input" | "returned"; under SpecFrame the
                          \*   position in the frame part of a tick: "detect" |
                          \*   "input" | "returned" | "presented"
    \* ---- one frame of run_game under SpecFrame ----
    mirror_flag,          \* run_game's argument `mirror`
    cnts,                 \* colour -> the contours findContours gives for its mask
    flipped,              \* whether the frame shown was flipped horizontally
    \* ---- DebugPointInjector under SpecDebug ----
    dbg_enabled,          \* self.enabled
    dbg_points,           \* self._points: the (button name, position) items in
                          \*   insertion order
    dbg_held,             \* (history) mouse button -> window position of its latest
                          \*   press or of the latest motion since, for the buttons
                          \*   pressed and neither released nor cut off by a focus loss
    dbg_out,              \* what the latest emit_points returned
    \* ---- the games under SpecMole and SpecDraw ----
    ticks,                \* pygame.time.get_ticks(), in ms
    targets_per_stage,    \* manifest["options"]["targets_per_stage"] of whack-a-mole
    wm,                   \* the WhackAMole object: its fields, and born = how many
                          \*   Mole objects it has made, live = how many are alive
    wm_stage_moles,       \* how many moles were made since the stage last changed
    qd,                   \* the QuickDraw object: its fields, and restarted =
                          \*   whether the latest call of a hook ran _init_state
    \* ---- run_game (the frame loop) ----
    pc,                   \* position in run_game: "start" | "setup" | "tick" | "events"
                          \*   | "calib" | "read" | "map" | "game" | "finally" | "done"
                          \*   ("off" under SpecMap and SpecStore)
    running,              \* run_game's local `running`
    events,               \* the part of pygame.event.get()'s list not yet iterated
    H,                    \* run_game's local H: None or a matrix object
    input_layer_H,        \* input_layer.H
    corners_cam,          \* tracker._corners_cam
    store_file,           \* the record at HomographyStore.path: None or [H, corners_cam]
    color_i,              \* index of the colour map_and_select is at
    mapped_with,          \* the transform each colour of this tick was mapped with
    calls,                \* the calls the frame loop has made since the tick began
    life,                 \* the once-per-run calls made so far: camera, game activation,
                          \*   an exception leaving the loop, the cleanup
    \* ---- ColorTracker.auto_calibrate (locals of the running call) ----
    idx,                  \* corner index 0..3
    stable,
    last,
    elapsed,              \* time.time() - t0, in seconds, saturating above TIMEOUT
    detected_cam,
    tracker_colors,       \* self.colors of the tracker the call runs on
    hist,                 \* (kept under SpecCal only) what the iterations for corner
                          \*   `corner` have seen: dets = its latest detections, run =
                          \*   how many of the latest iterations in a row had a detection
                          \*   within STABLE_PIXELS of the detection of the iteration before
    \* ---- history ----
    last_run,             \* how the latest auto_calibrate call ended, and what it captured
    \* ---- HomographyStore under SpecStore ----
    fs,                   \* the directory runtime/cache/homographies: file name -> content
    st_profile,           \* the profile the running program was started with ("" = no run)
    st_pc,                \* "idle" | "writing": position of the run in HomographyStore.save
    st_job,               \* the save under way or last begun: its profile and arguments
    st_prev,              \* the directory as it was when that save began
    st_loaded             \* what the most recent load since then gave

loopvars == <<pc, running, events, H, input_layer_H, corners_cam, store_file,
              color_i, mapped_with, calls, life>>

calvars == <<idx, stable, last, elapsed, detected_cam, hist>>

framevars == <<mirror_flag, cnts, flipped>>

debugvars == <<dbg_enabled, dbg_points, dbg_held, dbg_out>>

gamevars == <<ticks, targets_per_stage, wm, wm_stage_moles, qd>>

sidevars == <<debugvars, gamevars, tracker_colors>>

mapvars == <<max_points_per_color, li_H, li_mirror, cap_config, detections,
             screen_size, out, m_pc, framevars, sidevars>>

storevars == <<fs, st_profile, st_pc, st_job, st_prev, st_loaded>>

vars == <<mapvars, loopvars, calvars, last_run, storevars>>

\* Python's None, where the other values are tuples or lists (no list of the
\* model that can be None can also be empty)
None == <<>>

\* Python's None, where the other values are records (a matrix object, the
\* store's record)
NoneRec == [kind |-> "None"]

(***************************************************************************)
(* Bounds of the model                                                     *)
(***************************************************************************)
\* longest detection list handed to map_and_select
MaxDet == 4

\* longest list one pygame.event.get() of the frame loop returns
MaxEvents == 1

\* seconds by which the wall clock may advance during one calibration iteration
TimeStep == 4

(***************************************************************************)
(* Small helpers                                                           *)
(***************************************************************************)
Min(a, b) == IF a <= b THEN a ELSE b

Max(a, b) == IF a >= b THEN a ELSE b

SetMax(S) == CHOOSE m \in S : \A n \in S : n <= m

\* pts[:n] for n >= 0
Take(s, n) == SubSeq(s, 1, Min(n, Len(s)))

\* all sequences over S of length 0..n
SeqsUpTo(S, n) == UNION {[1..k -> S] : k \in 0..n}

(***************************************************************************)
(* Exact rationals <<n, d>> with d > 0 stand for the float coordinates.    *)
(***************************************************************************)
Rat(n, d) == IF d < 0 THEN <<0 - n, 0 - d>> ELSE <<n, d>>

RatOfInt(n) == <<n, 1>>

RatLe(a, b) == a[1] * b[2] <= b[1] * a[2]

RatLt(a, b) == a[1] * b[2] < b[1] * a[2]

\* k - a for an integer k
IntMinusRat(k, a) == <<k * a[2] - a[1], a[2]>>

(***************************************************************************)
(* str.lower() on the colour names of the model                            *)
(***************************************************************************)
Lower(s) == CASE s = "Red" -> "red"
              [] s = "RED" -> "red"
              [] OTHER -> s

(***************************************************************************)
(* LaserInput                                                              *)
(***************************************************************************)
\* {str(k).lower(): int(v) for k, v in (max_points or {}).items()}: cfg is
\* the dict as its list of (key, value) items in insertion order; a later
\* item whose key lowers to the same name overwrites the earlier one.
NormaliseCaps(cfg) ==
    LET keys == {Lower(cfg[i][1]) : i \in DOMAIN cfg}
    IN  [k \in keys |-> cfg[SetMax({i \in DOMAIN cfg : Lower(cfg[i][1]) = k})][2]]

\* LaserInput._limit_for: self.max_points_per_color.get(color.lower(), 0)
LimitForDefaultOne(caps, color) ==
    IF Lower(color) \in DOMAIN caps THEN caps[Lower(color)] ELSE 1

LimitFor(caps, color) ==
    IF Lower(color) \in DOMAIN caps THEN caps[Lower(color)] ELSE 0

\* cv2.perspectiveTransform of one point by the 3x3 matrix M (rows M[1..3]):
\* (x', y') = ((h11 x + h12 y + h13) / w, (h21 x + h22 y + h23) / w) with
\* w = h31 x + h32 y + h33, and (0, 0) when w = 0.
PerspectiveTransform(M, x, y) ==
    LET w  == M[3][1] * x + M[3][2] * y + M[3][3]
        xn == M[1][1] * x + M[1][2] * y + M[1][3]
        yn == M[2][1] * x + M[2][2] * y + M[2][3]
    IN  IF w = 0 THEN <<RatOfInt(0), RatOfInt(0)>>
        ELSE <<Rat(xn, w), Rat(yn, w)>>

\* the bounds test of _map_point: 0 <= x < w and 0 <= y < h
InBounds(p, size) ==
    /\ RatLe(RatOfInt(0), p[1]) /\ RatLt(p[1], RatOfInt(size[1]))
    /\ RatLe(RatOfInt(0), p[2]) /\ RatLt(p[2], RatOfInt(size[2]))

TransformedNoneAsOrigin(M, cam_xy) ==
    IF M = None THEN <<RatOfInt(0), RatOfInt(0)>>
    ELSE PerspectiveTransform(M, cam_xy[1], cam_xy[2])

\* the camera point before the bounds test (the first branch of _map_point)
Transformed(M, cam_xy) ==
    IF M = None THEN <<RatOfInt(cam_xy[1]), RatOfInt(cam_xy[2])>>
    ELSE PerspectiveTransform(M, cam_xy[1], cam_xy[2])

MirrorXShifted(w, x) == <<x[1] + (w - 1) * x[2], x[2]>>

\* x = (w - 1) - x
MirrorX(w, x) == IntMinusRat(w - 1, x)

MapPointMirrorFirst(M, mirror, cam_xy, size) ==
    LET p == Transformed(M, cam_xy)
        q == IF mirror THEN <<MirrorX(size[1], p[1]), p[2]>> ELSE p
    IN  IF InBounds(q, size) THEN q ELSE None

\* LaserInput._map_point: None, or the (mirrored) screen point
MapPoint(M, mirror, cam_xy, size) ==
    LET p == Transformed(M, cam_xy)
    IN  IF InBounds(p, size)
        THEN IF mirror THEN <<MirrorX(size[1], p[1]), p[2]>> ELSE p
        ELSE None

\* DebugPointInjector._to_logical on the window position (x, y)
ToLogical(mirror, x, y, w, h) ==
    IF mirror THEN <<(w - 1) - x, y>> ELSE <<x, y>>

\* the loop of map_and_select that builds `mapped` from pts[:pre_cap]
RECURSIVE MapAll(_, _, _, _)
MapAll(M, mirror, pts, size) ==
    IF pts = <<>> THEN <<>>
    ELSE LET m == MapPoint(M, mirror, <<Head(pts)[1], Head(pts)[2]>>, size)
             rest == MapAll(M, mirror, Tail(pts), size)
         IN  IF m = None THEN rest
             ELSE <<[x |-> m[1], y |-> m[2], intensity |-> Head(pts)[3]]>> \o rest

\* insertion of p into a list sorted by non-increasing intensity, after the
\* elements of equal intensity (list.sort is stable, also with reverse=True)
RECURSIVE InsertAsc(_, _)
InsertAsc(p, s) ==
    IF s = <<>> THEN <<p>>
    ELSE IF Head(s).intensity <= p.intensity THEN <<Head(s)>> \o InsertAsc(p, Tail(s))
         ELSE <<p>> \o s

RECURSIVE InsertDesc(_, _)
InsertDesc(p, s) ==
    IF s = <<>> THEN <<p>>
    ELSE IF Head(s).intensity >= p.intensity THEN <<Head(s)>> \o InsertDesc(p, Tail(s))
         ELSE <<p>> \o s

\* mapped.sort(key=lambda p: p.intensity, reverse=True)
RECURSIVE SortByIntensityDesc(_)
SortByIntensityDesc(s) ==
    IF s = <<>> THEN <<>>
    ELSE InsertDesc(s[Len(s)], SortByIntensityDesc(SubSeq(s, 1, Len(s) - 1)))

\* pre_cap = max(1, cap * 3)
PreCapNoExtra(cap) == Max(1, cap)

PreCap(cap) == Max(1, cap * 3)

SelectForColourLateCut(caps, M, mirror, color, pts, size) ==
    LET cap == LimitFor(caps, color)
    IN  IF cap <= 0 THEN <<>>
        ELSE Take(SortByIntensityDesc(MapAll(M, mirror, pts, size)), cap)

\* the body of map_and_select for one colour
SelectForColour(caps, M, mirror, color, pts, size) ==
    LET cap == LimitFor(caps, color)
    IN  IF cap <= 0 THEN <<>>
        ELSE Take(SortByIntensityDesc(MapAll(M, mirror, Take(pts, PreCap(cap)), size)), cap)

\* LaserInput.map_and_select
MapAndSelect(caps, M, mirror, dets, size) ==
    [c \in DOMAIN dets |-> SelectForColour(caps, M, mirror, c, dets[c], size)]

(***************************************************************************)
(* SpecMap: map_and_select applied to bounded inputs                       *)
(***************************************************************************)
ScreenSizes == {<<4, 3>>}

\* camera positions and intensities of the detections
DetPositions == {<<1, 1>>, <<7, 1>>, <<1, 7>>}

Intensities == {50, 90}

Detection == {<<p[1], p[2], i>> : p \in DetPositions, i \in Intensities}

\* 3x3 matrices: halving (w = 2), a shift of x by -5, and a perspective one
HalfH == <<<<1, 0, 0>>, <<0, 1, 0>>, <<0, 0, 2>>>>

ShiftH == <<<<1, 0, -5>>, <<0, 1, 0>>, <<0, 0, 1>>>>

Transforms == {None, HalfH, ShiftH}

\* cap configurations (dict items in insertion order)
CapConfigs ==
    { <<>>,
      << <<"red", 1>> >>,
      << <<"red", 0>> >>,
      << <<"Red", 2>>, <<"green", 1>> >>,
      << <<"RED", -1>> >>,
      << <<"Red", 0>>, <<"red", 1>> >> }

\* detection maps: a colour tracked under the name "red" or "RED" with a list
\* of up to MaxDet entries, and "green" with one detection
DetectionMaps ==
    { [c \in {k, "green"} |-> IF c = k THEN l ELSE << <<1, 1, 50>> >>] :
        k \in {"red", "RED"}, l \in SeqsUpTo(Detection, MaxDet) }

\* the store variables while another specification runs
StoreOff ==
    /\ fs = <<>> /\ st_profile = "" /\ st_pc = "off"
    /\ st_job = NoneRec /\ st_prev = <<>> /\ st_loaded = [kind |-> "nothing"]

\* the injector variables while another specification runs
DebugOff ==
    dbg_enabled = FALSE /\ dbg_points = <<>> /\ dbg_held = <<>> /\ dbg_out = <<>>

\* the frame variables while another specification runs
GamesOff ==
    /\ ticks = 0 /\ targets_per_stage = 0 /\ wm = <<>> /\ wm_stage_moles = 0
    /\ qd = <<>>

FrameOff ==
    mirror_flag = FALSE /\ cnts = <<>> /\ flipped = FALSE /\ DebugOff /\ GamesOff

LoopOff ==
    /\ pc = "off" /\ running = FALSE /\ events = <<>>
    /\ H = NoneRec /\ input_layer_H = NoneRec /\ corners_cam = <<>>
    /\ store_file = NoneRec
    /\ color_i = 0 /\ mapped_with = <<>> /\ calls = <<>> /\ life = <<>>
    /\ idx = 0 /\ stable = 0 /\ last = None /\ elapsed = 0 /\ detected_cam = <<>>
    /\ tracker_colors = <<>>
    /\ hist = NoneRec
    /\ last_run = [outcome |-> "none", captured |-> <<>>]

InitMap ==
    /\ LoopOff
    /\ StoreOff
    /\ FrameOff
    /\ cap_config \in CapConfigs
    /\ max_points_per_color = NormaliseCaps(cap_config)
    /\ li_H \in Transforms
    /\ li_mirror \in BOOLEAN
    /\ detections \in DetectionMaps
    /\ screen_size \in ScreenSizes
    /\ out = None
    /\ m_pc = "input"

\* one call of input_layer.map_and_select(detections, screen_size)
CallMapAndSelect ==
    /\ m_pc = "input"
    /\ out' = MapAndSelect(max_points_per_color, li_H, li_mirror, detections, screen_size)
    /\ m_pc' = "returned"
    /\ UNCHANGED <<max_points_per_color, li_H, li_mirror, cap_config, detections, screen_size>>
    /\ UNCHANGED <<framevars, sidevars>>
    /\ UNCHANGED <<loopvars, calvars, last_run, storevars>>

NextMap == CallMapAndSelect

SpecMap == InitMap /\ [][NextMap]_vars

\* the same calls of map_and_select, under which the examined prefix of a
\* colour's detection list is checked
SpecSelect == InitMap /\ [][NextMap]_vars

(***************************************************************************)
(* Properties of map_and_select (checked under SpecMap)                    *)
(***************************************************************************)
Returned == m_pc = "returned"

\* the items of the cap configuration whose key names the colour, compared
\* case-insensitively
ItemsFor(color) == {i \in DOMAIN cap_config : Lower(cap_config[i][1]) = Lower(color)}

\* the cap the configuration gives the colour: that of the last matching
\* item, 0 when no item matches
ConfiguredCap(color) ==
    IF ItemsFor(color) = {} THEN 0 ELSE cap_config[SetMax(ItemsFor(color))][2]

NonIncreasing(s) == \A i \in 1..(Len(s) - 1) : s[i].intensity >= s[i + 1].intensity

\* number of entries of s equal to e / of intensity above t
CountEq(s, e) == Cardinality({i \in DOMAIN s : s[i] = e})

CountAbove(s, t) == Cardinality({i \in DOMAIN s : s[i].intensity > t})

\* o consists of the n highest-intensity points of the list all (all of them
\* when all has fewer than n)
IsTopN(o, all, n) ==
    /\ Len(o) = Min(n, Len(all))
    /\ \A i \in DOMAIN o : CountEq(o, o[i]) <= CountEq(all, o[i])
    /\ \A t \in Intensities : CountAbove(o, t) = Min(n, CountAbove(all, t))

\* the screen points of the in-bounds detections among pts, in list order
InBoundsPoints(pts) ==
    LET keep == {i \in DOMAIN pts :
                    InBounds(Transformed(li_H, <<pts[i][1], pts[i][2]>>), screen_size)}
    IN  [i \in keep |-> pts[i]]

NumInBounds(pts) == Cardinality(DOMAIN InBoundsPoints(pts))

\* C3: every per-colour sequence returned by map_and_select is no longer than
\* the colour's configured cap (a cap below 0 counting as 0) and is ordered by
\* non-increasing intensity.
C3_CapAndOrder ==
    Returned =>
        \A c \in DOMAIN out :
            /\ Len(out[c]) <= Max(0, ConfiguredCap(c))
            /\ NonIncreasing(out[c])

\* a call where the cap cuts the list and the sort reorders it: cap 1, the
\* first two detections in bounds with the weaker one first
C3_Witness ==
    /\ Returned
    /\ \E c \in DOMAIN out :
        /\ ConfiguredCap(c) = 1
        /\ Len(detections[c]) >= 2
        /\ NumInBounds(Take(detections[c], 2)) = 2
        /\ detections[c][1][3] < detections[c][2][3]
        /\ Len(out[c]) = 1
        /\ out[c][1].intensity = detections[c][2][3]

\* C4 as claimed: for every colour with cap N > 0 the output is the N
\* highest-intensity points among ALL of the colour's detections that map
\* inside the screen rectangle.
C4_TopNOfAll ==
    Returned =>
        \A c \in DOMAIN out :
            ConfiguredCap(c) > 0 =>
                IsTopN(out[c],
                       MapAll(li_H, li_mirror, detections[c], screen_size),
                       ConfiguredCap(c))

\* C4 amended: for every colour with cap N > 0 the output is the N
\* highest-intensity points among those of the FIRST max(1, 3N) detections of
\* the colour's list that map inside the screen rectangle.
C4_TopNOfExamined ==
    Returned =>
        \A c \in DOMAIN out :
            ConfiguredCap(c) > 0 =>
                IsTopN(out[c],
                       MapAll(li_H, li_mirror,
                              Take(detections[c], Max(1, 3 * ConfiguredCap(c))),
                              screen_size),
                       ConfiguredCap(c))

\* the scenario of the claim: cap 1, an in-bounds detection of intensity 50
\* followed by an in-bounds one of intensity 90, output exactly the latter
C4_Witness ==
    /\ Returned
    /\ \E c \in DOMAIN out :
        /\ ConfiguredCap(c) = 1
        /\ Len(detections[c]) = 2
        /\ NumInBounds(detections[c]) = 2
        /\ detections[c][1][3] = 50
        /\ detections[c][2][3] = 90
        /\ Len(out[c]) = 1
        /\ out[c][1].intensity = 90

\* C5: a colour whose every case-insensitively matching cap item is 0 or
\* negative, or that has no matching item, always gets an empty sequence.
C5_ZeroCapEmpty ==
    Returned =>
        \A c \in DOMAIN out :
            (\A i \in ItemsFor(c) : cap_config[i][2] <= 0) => out[c] = <<>>

\* a colour absent from the cap configuration, and one capped at 0, each with
\* an in-bounds detection, are suppressed
C5_Witness ==
    /\ Returned
    /\ \E c \in DOMAIN out :
        /\ ItemsFor(c) = {}
        /\ NumInBounds(detections[c]) > 0
        /\ out[c] = <<>>
    /\ \E c \in DOMAIN out :
        /\ ItemsFor(c) # {}
        /\ ConfiguredCap(c) <= 0
        /\ NumInBounds(detections[c]) > 0
        /\ out[c] = <<>>

\* C6 as claimed: every emitted point lies inside the screen rectangle,
\* 0 <= x < width and 0 <= y < height, with the mirror flag off or on.
C6_EmittedInsideScreen ==
    Returned =>
        \A c \in DOMAIN out :
            \A i \in DOMAIN out[c] :
                InBounds(<<out[c][i].x, out[c][i].y>>, screen_size)

(***************************************************************************)
(* Calibration: transforms, the fit and the store                          *)
(***************************************************************************)
\* STABLE_FRAMES, STABLE_PIXELS and TIMEOUT (seconds) of auto_calibrate
STABLE_FRAMES == 6

STABLE_PIXELS == 4

TIMEOUT == 6

\* screen_size of the run
LoopScreen == <<128, 72>>

\* the canonical screen corners TL, TR, BR, BL: the dst points of the fit
ScreenCorners ==
    << <<0, 0>>, <<LoopScreen[1] - 1, 0>>,
       <<LoopScreen[1] - 1, LoopScreen[2] - 1>>, <<0, LoopScreen[2] - 1>> >>

\* Camera positions at which the laser shows while corner k is lit: where the
\* projected corner is seen (Target[k]) or a stray spot on the line through
\* the top two corners.
Target == << <<10, 10>>, <<90, 10>>, <<90, 70>>, <<10, 70>> >>

Stray == <<50, 10>>

\* a position exactly STABLE_PIXELS away from the second corner, and one
\* within STABLE_PIXELS of the third corner along each axis but farther in
\* Euclidean distance
Edge == <<94, 10>>

Diagonal == <<93, 73>>

\* where the camera may see the laser while corner k is shown
CamCandidates(k) ==
    {Target[k + 1], CASE k = 1 -> Edge [] k = 2 -> Diagonal [] OTHER -> Stray}

\* A transform value is the identity matrix or the homography fitted to four
\* camera points src (with dst = ScreenCorners): that homography is unique, so
\* it is named by src.
EyeM == [kind |-> "eye", src |-> <<>>]

FitM(src) == [kind |-> "fit", src |-> src]

Collinear(a, b, c) ==
    (b[1] - a[1]) * (c[2] - a[2]) - (b[2] - a[2]) * (c[1] - a[1]) = 0

Degenerate(q) ==
    \E i, j, k \in 1..4 : i < j /\ j < k /\ Collinear(q[i], q[j], q[k])

\* cv2.findHomography(src, dst, RANSAC, 3.0): no result for four points of
\* which three are collinear (or two coincide)
FindHomography(src) == IF Degenerate(src) THEN NoneRec ELSE FitM(src)

\* the camera points the inverse of a matrix sends the screen corners to
InverseCorners(m) == IF m.kind = "eye" THEN ScreenCorners ELSE m.src

\* a matrix object: `id` tells two arrays apart, `m` is what the array holds.
\* At most one array is referenced at a time, so two ids are enough.
FreshId(cur) == IF cur = NoneRec THEN 0 ELSE 1 - cur.id

NewArray(cur, m) == [id |-> FreshId(cur), m |-> m]

SaveWithoutCorners(Hobj, corners) == [H |-> Hobj.m, corners |-> None]

\* HomographyStore.save: np.savez_compressed(path, H=H[, corners_cam=...])
Save(Hobj, corners) == [H |-> Hobj.m, corners |-> corners]

LoadEyeWhenMissing(file) ==
    IF file = NoneRec THEN <<[id |-> 0, m |-> EyeM], None>>
    ELSE <<[id |-> 0, m |-> file.H], file.corners>>

\* HomographyStore.load: (None, None) without a file, else (H, corners or None)
Load(file) ==
    IF file = NoneRec THEN <<NoneRec, None>>
    ELSE <<[id |-> 0, m |-> file.H], file.corners>>

\* ColorTracker.set_preview_corners_cam: the list of (corners_cam or [])
SetPreviewCornersCam(corners) == IF corners = None THEN <<>> ELSE corners

\* ColorTracker.set_preview_corners_from_H
SetPreviewCornersFromH(Hobj) ==
    IF Hobj = NoneRec THEN <<>> ELSE InverseCorners(Hobj.m)

\* LaserInput.set_homography: self.H = H rebinds the reference
SetHomographyInPlace(cur, new) ==
    IF cur = NoneRec THEN new ELSE [id |-> cur.id, m |-> new.m]

SetHomography(cur, new) == new

\* the corners_cam argument run_game gives H_store.save
SaveCornersNever(corners) == None

SaveCorners(corners) == IF Len(corners) = 4 THEN corners ELSE None

(***************************************************************************)
(* HomographyStore over several runs of the program (SpecStore)            *)
(***************************************************************************)
\* profile names a run can be started with (launchers/run.py --profile)
Profiles == {"A", "B"}

\* HomographyStore.__init__: self.path = root / f"default.npz". The
\* constructor declares no profile parameter and the file name holds no
\* placeholder, so the path is the same for every profile.
StorePath(profile) == "default.npz"

FileNames == {StorePath(p) : p \in Profiles}

\* A file of the directory is absent (NoneRec), a complete archive (the record
\* Save gives) or an archive cut off after `members` arrays, before the
\* central directory that zipfile writes on close.
Truncated(n) == [kind |-> "trunc", members |-> n]

IsTruncated(file) == file \in {Truncated(n) : n \in 0..2}

\* second calibration result, different from Target
Target2 == << <<12, 10>>, <<90, 10>>, <<90, 70>>, <<10, 70>> >>

\* the (H, corners_cam) pairs run_game hands to save
SaveArgs ==
    { [H |-> FitM(Target), corners |-> Target],
      [H |-> FitM(Target2), corners |-> Target2],
      [H |-> EyeM, corners |-> None] }

\* the archive a save of job leaves when it runs to its end
CompleteFile(job) == Save([id |-> 0, m |-> job.H], job.corners)

\* arrays np.savez_compressed writes: H, and corners_cam when given
MembersOf(job) == IF job.corners = None THEN 1 ELSE 2

\* HomographyStore.load on the file: np.load raises on an archive without
\* central directory (zipfile.BadZipFile; EOFError on an empty file)
LoadOutcome(profile, file) ==
    IF IsTruncated(file) THEN [kind |-> "raised", by |-> profile, value |-> <<>>]
    ELSE [kind |-> "returned", by |-> profile, value |-> Load(file)]

InitStore ==
    /\ LoopOff
    /\ max_points_per_color = <<>> /\ li_H = None /\ li_mirror = FALSE
    /\ cap_config = <<>> /\ detections = <<>> /\ screen_size = LoopScreen
    /\ out = None /\ m_pc = "idle"
    /\ FrameOff
    /\ fs \in [FileNames -> {NoneRec} \cup {CompleteFile(j) : j \in SaveArgs}]
    /\ st_profile = "" /\ st_pc = "idle"
    /\ st_job = NoneRec
    /\ st_prev = fs
    /\ st_loaded = [kind |-> "nothing"]

\* a run of the program started with --profile p builds its store
StoreConstruct(p) ==
    /\ st_profile = "" /\ st_pc = "idle"
    /\ st_profile' = p
    /\ st_loaded' = [kind |-> "nothing"]
    /\ UNCHANGED <<fs, st_pc, st_job, st_prev>>
    /\ UNCHANGED <<mapvars, loopvars, calvars, last_run>>

\* H_store.load()
StoreLoad ==
    /\ st_profile # "" /\ st_pc = "idle"
    /\ st_loaded' = LoadOutcome(st_profile, fs[StorePath(st_profile)])
    /\ UNCHANGED <<fs, st_profile, st_pc, st_job, st_prev>>
    /\ UNCHANGED <<mapvars, loopvars, calvars, last_run>>

\* H_store.save(H, corners_cam): np.savez_compressed opens self.path itself
\* for writing, which empties the file that was there
SaveBegin ==
    /\ st_profile # "" /\ st_pc = "idle"
    /\ \E args \in SaveArgs :
        st_job' = [by |-> st_profile, H |-> args.H, corners |-> args.corners]
    /\ st_prev' = fs
    /\ fs' = [fs EXCEPT ![StorePath(st_profile)] = Truncated(0)]
    /\ st_pc' = "writing"
    /\ st_loaded' = [kind |-> "nothing"]
    /\ UNCHANGED st_profile
    /\ UNCHANGED <<mapvars, loopvars, calvars, last_run>>

\* the next array is compressed into the archive
SaveWriteMember ==
    /\ st_pc = "writing"
    /\ fs[StorePath(st_profile)].members < MembersOf(st_job)
    /\ fs' = [fs EXCEPT ![StorePath(st_profile)] = Truncated(@.members + 1)]
    /\ UNCHANGED <<st_profile, st_pc, st_job, st_prev, st_loaded>>
    /\ UNCHANGED <<mapvars, loopvars, calvars, last_run>>

\* the archive is closed: the central directory is written, save returns
SaveClose ==
    /\ st_pc = "writing"
    /\ fs[StorePath(st_profile)].members = MembersOf(st_job)
    /\ fs' = [fs EXCEPT ![StorePath(st_profile)] = CompleteFile(st_job)]
    /\ st_pc' = "idle"
    /\ UNCHANGED <<st_profile, st_job, st_prev, st_loaded>>
    /\ UNCHANGED <<mapvars, loopvars, calvars, last_run>>

\* the process is killed (or the machine loses power) inside save
SaveInterrupted ==
    /\ st_pc = "writing"
    /\ st_pc' = "idle"
    /\ st_profile' = ""
    /\ UNCHANGED <<fs, st_job, st_prev, st_loaded>>
    /\ UNCHANGED <<mapvars, loopvars, calvars, last_run>>

\* the run ends outside save
RunExits ==
    /\ st_profile # "" /\ st_pc = "idle"
    /\ st_profile' = ""
    /\ UNCHANGED <<fs, st_pc, st_job, st_prev, st_loaded>>
    /\ UNCHANGED <<mapvars, loopvars, calvars, last_run>>

NextStore ==
    \/ \E p \in Profiles : StoreConstruct(p)
    \/ StoreLoad \/ SaveBegin \/ SaveWriteMember \/ SaveClose
    \/ SaveInterrupted \/ RunExits

SpecStore == InitStore /\ [][NextStore]_vars

\* C11 as claimed: after a save was begun, whether it ran to its end or was
\* interrupted at any step, a load returns the complete record that was there
\* before, the complete record being written, or no record; it never meets a
\* truncated record.
C11_SaveIsAtomic ==
    (st_job # NoneRec /\ st_loaded.kind # "nothing") =>
        /\ st_loaded.kind = "returned"
        /\ st_loaded.value \in
             {Load(NoneRec)} \cup
             {Load(f) : f \in {g \in {st_prev[StorePath(st_job.by)],
                                      CompleteFile(st_job)} : ~IsTruncated(g)}}

\* C13 as claimed: a save made by a run started with one profile leaves the
\* record of every other profile as it was before the save.
C13_ProfilesAreSeparate ==
    [][(st_pc = "writing" /\ st_pc' = "idle" /\ st_profile' # "")
            => \A q \in Profiles \ {st_profile} :
                  fs'[StorePath(q)] = st_prev[StorePath(q)]]_vars

(***************************************************************************)
(* run_game: the frame loop                                                *)
(***************************************************************************)
EventKinds == {"QUIT", "K_ESCAPE", "K_c", "OTHER"}

\* events one pygame.event.get() inside auto_calibrate may deliver
CalibEvents == {"none", "K_ESCAPE", "QUIT", "OTHER"}

\* tracker.colors, the keys of the detection map in iteration order
TrackedColours == <<"red", "green">>

\* the colours of the trackers a calibration is checked for: with and without
\* "red"
CalibColours == {TrackedColours, <<"green", "blue">>}

\* records a previous run of the program can have left at the store path
InitStores == {NoneRec, Save([id |-> 0, m |-> FitM(Target)], Target)}

\* the history of corner k when it is entered; ev is the event the latest
\* pygame.event.get() of the call delivered
HistOf(k) == [corner |-> k, dets |-> <<>>, run |-> 0, ev |-> "none"]

\* the history at the entry of auto_calibrate (no history where none is kept)
HistNew == IF hist = NoneRec THEN NoneRec ELSE HistOf(0)

\* the last n entries of a sequence
LastN(seq, n) ==
    IF Len(seq) <= n THEN seq ELSE SubSeq(seq, Len(seq) - n + 1, Len(seq))

SqDist(a, b) == (a[1] - b[1]) * (a[1] - b[1]) + (a[2] - b[2]) * (a[2] - b[2])

\* the history after an iteration that pumped ev and stopped there
HistPumped(ev) == IF hist = NoneRec THEN NoneRec ELSE [hist EXCEPT !.ev = ev]

\* the history after an iteration that pumped ev and saw obs: a detection, or
\* None when the read failed or nothing was detected
HistAfter(ev, obs) ==
    IF hist = NoneRec THEN NoneRec
    ELSE LET h == IF hist.corner = idx THEN hist ELSE HistOf(idx)
         IN  IF obs = None THEN [h EXCEPT !.run = 0, !.ev = ev]
             ELSE [corner |-> idx, ev |-> ev,
                   dets |-> LastN(Append(h.dets, obs), STABLE_FRAMES),
                   run |-> IF h.run >= 1
                              /\ SqDist(obs, h.dets[Len(h.dets)])
                                     <= STABLE_PIXELS * STABLE_PIXELS
                           THEN Min(h.run + 1, STABLE_FRAMES) ELSE 1]

NoCalLocals ==
    /\ idx' = 0 /\ stable' = 0 /\ last' = None /\ elapsed' = 0
    /\ detected_cam' = <<>>

\* run_game has built the window, the game object and the Camera object
\* (loop.py lines 27-50) and is about to call cam.open().
Init ==
    /\ store_file \in InitStores
    /\ H = NoneRec /\ input_layer_H = NoneRec /\ corners_cam = <<>>
    /\ pc = "start" /\ running = FALSE /\ events = <<>>
    /\ color_i = 0 /\ mapped_with = <<>> /\ calls = <<>> /\ life = <<>>
    /\ idx = 0 /\ stable = 0 /\ last = None /\ elapsed = 0 /\ detected_cam = <<>>
    /\ tracker_colors = TrackedColours
    /\ hist = NoneRec
    /\ last_run = [outcome |-> "none", captured |-> <<>>]
    /\ max_points_per_color = <<>> /\ li_H = None /\ li_mirror = FALSE
    /\ cap_config = <<>> /\ detections = <<>> /\ screen_size = LoopScreen
    /\ out = None /\ m_pc = "idle"
    /\ StoreOff
    /\ FrameOff

CameraOpenFailsNoReturn ==
    /\ pc = "start"
    /\ pc' = "setup"
    /\ life' = life \o <<"open_failed", "error_reported", "pygame.quit">>
    /\ UNCHANGED <<running, events, H, input_layer_H, corners_cam, store_file,
                   color_i, mapped_with, calls>>
    /\ UNCHANGED <<calvars, last_run, mapvars, storevars>>

\* cam.open() returns False: the error is printed, pygame.quit(), return
CameraOpenFails ==
    /\ pc = "start"
    /\ pc' = "done"
    /\ life' = life \o <<"open_failed", "error_reported", "pygame.quit">>
    /\ UNCHANGED <<running, events, H, input_layer_H, corners_cam, store_file,
                   color_i, mapped_with, calls>>
    /\ UNCHANGED <<calvars, last_run, mapvars, storevars>>

\* cam.open() returns True
CameraOpens ==
    /\ pc = "start"
    /\ pc' = "setup"
    /\ life' = Append(life, "open")
    /\ UNCHANGED <<running, events, H, input_layer_H, corners_cam, store_file,
                   color_i, mapped_with, calls>>
    /\ UNCHANGED <<calvars, last_run, mapvars, storevars>>

\* loop.py lines 56-79: the tracker, the store and H, corners_cam =
\* H_store.load(), the preview corners, the input layer built with the loaded
\* H. (run_game builds the store and the input layer with the keywords
\* profile_name= and max_points_per_color=, which HomographyStore.__init__ and
\* LaserInput.__init__ do not declare; the run is modelled from the objects
\* those two calls are written to build.)
Setup ==
    /\ pc = "setup"
    /\ pc' = "activate"
    /\ H' = Load(store_file)[1]
    /\ corners_cam' = IF Load(store_file)[2] # None
                      THEN SetPreviewCornersCam(Load(store_file)[2])
                      ELSE SetPreviewCornersFromH(Load(store_file)[1])
    /\ input_layer_H' = Load(store_file)[1]
    /\ UNCHANGED <<running, events, store_file, color_i, mapped_with, calls, life>>
    /\ UNCHANGED <<calvars, last_run, mapvars, storevars>>

\* game.on_load(ctx, manifest); running = True
Activate ==
    /\ pc = "activate"
    /\ pc' = "tick"
    /\ running' = TRUE
    /\ life' = Append(life, "on_load")
    /\ UNCHANGED <<events, H, input_layer_H, corners_cam, store_file, color_i,
                   mapped_with, calls>>
    /\ UNCHANGED <<calvars, last_run, mapvars, storevars>>

\* after the handler of the current event: game.on_event(event), next event
PopEvent ==
    /\ events' = Tail(events)
    /\ calls' = Append(calls, "on_event")
    /\ pc' = IF Tail(events) = <<>> THEN "read" ELSE "events"

\* while running: dt = clock.tick(60); for event in pygame.event.get()
PumpEvents ==
    /\ pc = "tick" /\ running
    /\ \E evs \in SeqsUpTo(EventKinds, MaxEvents) :
        /\ events' = evs
        /\ pc' = IF evs = <<>> THEN "read" ELSE "events"
    /\ mapped_with' = <<>>
    /\ calls' = <<>>
    /\ UNCHANGED <<running, H, input_layer_H, corners_cam, store_file, color_i, life>>
    /\ UNCHANGED <<calvars, last_run, mapvars, storevars>>

\* the while test fails: on to the finally block
ExitLoop ==
    /\ pc = "tick" /\ ~running
    /\ pc' = "finally"
    /\ UNCHANGED <<running, events, H, input_layer_H, corners_cam, store_file,
                   color_i, mapped_with, calls, life>>
    /\ UNCHANGED <<calvars, last_run, mapvars, storevars>>

HandleQuit ==
    /\ pc = "events" /\ Head(events) = "QUIT"
    /\ running' = FALSE
    /\ PopEvent
    /\ UNCHANGED <<H, input_layer_H, corners_cam, store_file, color_i, mapped_with,
                   life>>
    /\ UNCHANGED <<calvars, last_run, mapvars, storevars>>

HandleEscapeIgnored ==
    /\ pc = "events" /\ Head(events) = "K_ESCAPE"
    /\ PopEvent
    /\ UNCHANGED <<running, H, input_layer_H, corners_cam, store_file, color_i,
                   mapped_with, life>>
    /\ UNCHANGED <<calvars, last_run, mapvars, storevars>>

HandleEscape ==
    /\ pc = "events" /\ Head(events) = "K_ESCAPE"
    /\ running' = FALSE
    /\ PopEvent
    /\ UNCHANGED <<H, input_layer_H, corners_cam, store_file, color_i, mapped_with,
                   life>>
    /\ UNCHANGED <<calvars, last_run, mapvars, storevars>>

HandleOtherEvent ==
    /\ pc = "events" /\ Head(events) = "OTHER"
    /\ PopEvent
    /\ UNCHANGED <<running, H, input_layer_H, corners_cam, store_file, color_i,
                   mapped_with, life>>
    /\ UNCHANGED <<calvars, last_run, mapvars, storevars>>

\* K_c: H = tracker.auto_calibrate(screen, screen_size, cam) is entered; the
\* first corner starts with stable = 0, last = None, t0 = time.time()
HandleCalibrateKey ==
    /\ pc = "events" /\ Head(events) = "K_c"
    /\ pc' = "calib"
    /\ idx' = 0 /\ stable' = 0 /\ last' = None /\ elapsed' = 0
    /\ detected_cam' = <<>>
    /\ hist' = HistNew
    /\ UNCHANGED <<running, events, H, input_layer_H, corners_cam, store_file,
                   color_i, mapped_with, calls, life>>
    /\ UNCHANGED <<last_run, mapvars, storevars>>

\* The rest of the K_c handler once auto_calibrate has returned Hret and left
\* tracker._corners_cam = corners (loop.py lines 94-104): save, set_homography,
\* preview corners, game.on_event, next event.
CalibrateReturns(Hret, corners, outcome, captured) ==
    /\ H' = Hret
    /\ store_file' = Save(Hret, SaveCorners(corners))
    /\ input_layer_H' = SetHomography(input_layer_H, Hret)
    /\ corners_cam' = IF Len(corners) = 4 THEN SetPreviewCornersCam(corners)
                      ELSE SetPreviewCornersFromH(Hret)
    /\ last_run' = [outcome |-> outcome, captured |-> captured]
    /\ PopEvent
    /\ NoCalLocals
    /\ UNCHANGED <<running, color_i, mapped_with, life, mapvars, storevars>>

(***************************************************************************)
(* ColorTracker.auto_calibrate: one action per way an iteration of its     *)
(* `while True` can go                                                     *)
(***************************************************************************)
NearPerAxis(a, b) ==
    /\ (a[1] - b[1]) * (a[1] - b[1]) <= STABLE_PIXELS * STABLE_PIXELS
    /\ (a[2] - b[2]) * (a[2] - b[2]) <= STABLE_PIXELS * STABLE_PIXELS

\* (dx * dx + dy * dy) ** 0.5 <= STABLE_PIXELS
Near(a, b) ==
    (a[1] - b[1]) * (a[1] - b[1]) + (a[2] - b[2]) * (a[2] - b[2])
        <= STABLE_PIXELS * STABLE_PIXELS

StableAfterAnyDetection(cam_pt) == stable + 1

\* the stability counter after a detection at cam_pt
StableAfter(cam_pt) ==
    IF last = None THEN 1
    ELSE IF Near(cam_pt, last) THEN stable + 1 ELSE 1

CapturedInFront(list, cam_pt) == <<cam_pt>> \o list

\* detected_cam.append(cam_pt)
Captured(list, cam_pt) == Append(list, cam_pt)

\* time.time() - t0 after dt more seconds
ElapsedAfter(dt) == Min(elapsed + dt, TIMEOUT + 1)

TimeSteps == {0, TimeStep}

\* the events an iteration is checked for: where no history of the call is
\* kept, the events that do not cancel leave the same state, and "none"
\* stands for them
PumpedEvents == IF hist = NoneRec THEN {"none", "K_ESCAPE"} ELSE CalibEvents

CancelsNever(ev) == FALSE

\* ev.type == pygame.KEYDOWN and ev.key == pygame.K_ESCAPE
Cancels(ev) == ev = "K_ESCAPE"

\* Esc among the pumped events: return np.eye(3)
CalibCancel ==
    /\ pc = "calib"
    /\ \E ev \in PumpedEvents : Cancels(ev) /\ hist' = HistPumped(ev)
    /\ CalibrateReturns(NewArray(H, EyeM), corners_cam, "cancel", <<>>)

\* camera.read() fails: continue, without looking at the clock
CalibReadFail ==
    /\ pc = "calib"
    /\ \E ev \in PumpedEvents, dt \in TimeSteps :
        /\ ~Cancels(ev)
        /\ elapsed' = ElapsedAfter(dt)
        /\ hist' = HistAfter(ev, None)
    /\ UNCHANGED <<idx, stable, last, detected_cam>>
    /\ UNCHANGED <<loopvars, last_run, mapvars, storevars>>

RedDetectionOfAnyColour(colors, shown) == shown

\* cam_pt of an iteration whose frame shows the laser dot at `shown` (None: no
\* dot): detect looks only for the colours of self.colors, and auto_calibrate
\* takes the first point of detections.get("red", [])
RedDetection(colors, shown) ==
    IF \E i \in DOMAIN colors : colors[i] = "red" THEN shown ELSE None

\* the cam_pt the iterations for corner k can see
DetectedRed(k) ==
    {RedDetection(tracker_colors, shown) : shown \in CamCandidates(k) \cup {None}}

\* a frame without capture and within the time limit: next iteration
CalibWait ==
    /\ pc = "calib"
    /\ \E ev \in PumpedEvents, dt \in TimeSteps,
          cam_pt \in DetectedRed(idx) :
        /\ ~Cancels(ev)
        /\ cam_pt # None => StableAfter(cam_pt) < STABLE_FRAMES
        /\ ~(ElapsedAfter(dt) > TIMEOUT)
        /\ elapsed' = ElapsedAfter(dt)
        /\ stable' = IF cam_pt = None THEN stable ELSE StableAfter(cam_pt)
        /\ last' = IF cam_pt = None THEN last ELSE cam_pt
        /\ hist' = HistAfter(ev, cam_pt)
    /\ UNCHANGED <<idx, detected_cam>>
    /\ UNCHANGED <<loopvars, last_run, mapvars, storevars>>

\* a frame without capture after the time limit: return np.eye(3)
CalibTimeout ==
    /\ pc = "calib"
    /\ \E ev \in PumpedEvents, dt \in TimeSteps,
          cam_pt \in DetectedRed(idx) :
        /\ ~Cancels(ev)
        /\ cam_pt # None => StableAfter(cam_pt) < STABLE_FRAMES
        /\ ElapsedAfter(dt) > TIMEOUT
        /\ hist' = HistAfter(ev, cam_pt)
    /\ CalibrateReturns(NewArray(H, EyeM), corners_cam, "timeout", <<>>)

\* the detection is stable: corner idx captured, on to the next corner
CalibCapture ==
    /\ pc = "calib" /\ idx < 3
    /\ \E ev \in PumpedEvents, cam_pt \in DetectedRed(idx) \ {None} :
        /\ ~Cancels(ev)
        /\ StableAfter(cam_pt) >= STABLE_FRAMES
        /\ detected_cam' = Captured(detected_cam, cam_pt)
        /\ hist' = HistAfter(ev, cam_pt)
    /\ idx' = idx + 1
    /\ stable' = 0 /\ last' = None /\ elapsed' = 0
    /\ UNCHANGED <<loopvars, last_run, mapvars, storevars>>

FitOrNone(fit) == fit

\* if H is None: H = np.eye(3, dtype=np.float32)
FitOrIdentity(fit) == IF fit = NoneRec THEN EyeM ELSE fit

\* the fourth corner captured: fit, identity when the fit gives nothing,
\* set_preview_corners_cam(detected_cam), return H
CalibFinish ==
    /\ pc = "calib" /\ idx = 3
    /\ \E ev \in PumpedEvents, cam_pt \in DetectedRed(idx) \ {None} :
        /\ ~Cancels(ev)
        /\ StableAfter(cam_pt) >= STABLE_FRAMES
        /\ hist' = HistAfter(ev, cam_pt)
        /\ LET src == Captured(detected_cam, cam_pt)
               fit == FindHomography(src)
           IN  IF fit = NoneRec
               THEN CalibrateReturns(NewArray(H, FitOrIdentity(fit)),
                                     SetPreviewCornersCam(src), "fitfail", <<>>)
               ELSE CalibrateReturns(NewArray(H, FitOrIdentity(fit)),
                                     SetPreviewCornersCam(src), "success", src)

(***************************************************************************)
(* run_game: the frame part of a tick                                      *)
(***************************************************************************)
ReadFailFallsThrough ==
    /\ pc = "read"
    /\ pc' = "map"
    /\ color_i' = 1
    /\ calls' = Append(calls, "read_failed")
    /\ UNCHANGED <<running, events, H, input_layer_H, corners_cam, store_file,
                   mapped_with, life>>
    /\ UNCHANGED <<calvars, last_run, mapvars, storevars>>

\* ok, frame_bgr = cam.read(); if not ok: continue
ReadFail ==
    /\ pc = "read"
    /\ pc' = "tick"
    /\ calls' = Append(calls, "read_failed")
    /\ UNCHANGED <<running, events, H, input_layer_H, corners_cam, store_file,
                   color_i, mapped_with, life>>
    /\ UNCHANGED <<calvars, last_run, mapvars, storevars>>

\* the read succeeds: tracker.detect(frame_bgr), map_and_select is entered
ReadOk ==
    /\ pc = "read"
    /\ pc' = "map"
    /\ color_i' = 1
    /\ calls' = calls \o <<"read", "detect">>
    /\ UNCHANGED <<running, events, H, input_layer_H, corners_cam, store_file,
                   mapped_with, life>>
    /\ UNCHANGED <<calvars, last_run, mapvars, storevars>>

\* map_and_select: the detections of one colour are mapped with self.H
MapColour ==
    /\ pc = "map"
    /\ mapped_with' = Append(mapped_with, input_layer_H)
    /\ calls' = IF color_i = 1 THEN Append(calls, "map_and_select") ELSE calls
    /\ IF color_i = Len(TrackedColours)
       THEN pc' = "game" /\ color_i' = 0
       ELSE pc' = "map" /\ color_i' = color_i + 1
    /\ UNCHANGED <<running, events, H, input_layer_H, corners_cam, store_file, life>>
    /\ UNCHANGED <<calvars, last_run, mapvars, storevars>>

\* loop.py lines 113-128 in the order of the calls: the FrameData is built,
\* game.on_update(dt, frame_data), game.on_draw(render_surface),
\* pygame.display.flip()
GameStagesDrawFirst == <<"FrameData", "on_draw", "on_update", "flip">>

GameStages == <<"FrameData", "on_update", "on_draw", "flip">>

\* FrameData, game.on_update, game.on_draw, present
UpdateDrawPresent ==
    /\ pc = "game"
    /\ pc' = "tick"
    /\ calls' = calls \o GameStages
    /\ UNCHANGED <<running, events, H, input_layer_H, corners_cam, store_file,
                   color_i, mapped_with, life>>
    /\ UNCHANGED <<calvars, last_run, mapvars, storevars>>

(***************************************************************************)
(* Exceptions raised by the game's callbacks inside the try block, and the *)
(* finally block                                                           *)
(***************************************************************************)
\* game.on_event(event) raises, after the handler of a QUIT, Escape or other
\* event
OnEventRaises ==
    /\ pc = "events" /\ Head(events) # "K_c"
    /\ running' = IF Head(events) \in {"QUIT", "K_ESCAPE"} THEN FALSE ELSE running
    /\ calls' = Append(calls, "on_event")
    /\ life' = Append(life, "exception")
    /\ events' = <<>>
    /\ pc' = "finally"
    /\ UNCHANGED <<H, input_layer_H, corners_cam, store_file, color_i, mapped_with>>
    /\ UNCHANGED <<calvars, last_run, mapvars, storevars>>

\* game.on_update raises (n = 2 calls of GameStages made) or game.on_draw
\* raises (n = 3)
GameCallbackRaises ==
    /\ pc = "game"
    /\ \E n \in {2, 3} : calls' = calls \o Take(GameStages, n)
    /\ life' = Append(life, "exception")
    /\ pc' = "finally"
    /\ UNCHANGED <<running, events, H, input_layer_H, corners_cam, store_file,
                   color_i, mapped_with>>
    /\ UNCHANGED <<calvars, last_run, mapvars, storevars>>

\* the finally block in the order of its calls
CleanupWithoutUnload == <<"cam.close", "tracker.teardown", "pygame.quit">>

Cleanup == <<"cam.close", "tracker.teardown", "on_unload", "pygame.quit">>

\* finally: cam.close(), tracker.teardown(), game.on_unload(), pygame.quit()
Finally ==
    /\ pc = "finally"
    /\ pc' = "done"
    /\ life' = life \o Cleanup
    /\ UNCHANGED <<running, events, H, input_layer_H, corners_cam, store_file,
                   color_i, mapped_with, calls>>
    /\ UNCHANGED <<calvars, last_run, mapvars, storevars>>

Next ==
    \/ CameraOpenFails \/ CameraOpens \/ Setup \/ Activate
    \/ PumpEvents \/ ExitLoop
    \/ HandleQuit \/ HandleEscape \/ HandleOtherEvent \/ HandleCalibrateKey
    \/ CalibCancel \/ CalibReadFail \/ CalibWait \/ CalibTimeout
    \/ CalibCapture \/ CalibFinish
    \/ ReadFail \/ ReadOk \/ MapColour \/ UpdateDrawPresent
    \/ OnEventRaises \/ GameCallbackRaises \/ Finally

Spec == Init /\ [][Next]_vars

\* an exception leaves run_game between cam.open() and the try statement of
\* line 84: raised by ColorTracker(...), by HomographyStore(profile_name=...)
\* (whose constructor declares no such keyword), by H_store.load(), by
\* LaserInput(max_points_per_color=...) or by the lines around them
SetupRaises ==
    /\ pc = "setup"
    /\ pc' = "done"
    /\ life' = Append(life, "exception")
    /\ UNCHANGED <<running, events, H, input_layer_H, corners_cam, store_file,
                   color_i, mapped_with, calls>>
    /\ UNCHANGED <<calvars, last_run, mapvars, storevars>>

\* game.on_load(ctx, manifest) raises, line 81, still before the try statement
OnLoadRaises ==
    /\ pc = "activate"
    /\ pc' = "done"
    /\ life' = life \o <<"on_load", "exception">>
    /\ UNCHANGED <<running, events, H, input_layer_H, corners_cam, store_file,
                   color_i, mapped_with, calls>>
    /\ UNCHANGED <<calvars, last_run, mapvars, storevars>>

\* run_game with the failures of its start-up
NextStartup == Next \/ SetupRaises \/ OnLoadRaises

SpecStartup == Init /\ [][NextStartup]_vars

(***************************************************************************)
(* One call of auto_calibrate, with the history of each corner (SpecCal)   *)
(***************************************************************************)
\* The frame loop has pumped a K_c key press in the first tick of a run and
\* has entered auto_calibrate (the state HandleCalibrateKey leaves).
InitCal ==
    /\ store_file \in InitStores
    /\ H = Load(store_file)[1]
    /\ corners_cam = IF Load(store_file)[2] # None
                     THEN SetPreviewCornersCam(Load(store_file)[2])
                     ELSE SetPreviewCornersFromH(Load(store_file)[1])
    /\ input_layer_H = H
    /\ pc = "calib" /\ running = TRUE /\ events = <<"K_c">>
    /\ color_i = 0 /\ mapped_with = <<>> /\ calls = <<>>
    /\ life = <<"open", "on_load">>
    /\ idx = 0 /\ stable = 0 /\ last = None /\ elapsed = 0 /\ detected_cam = <<>>
    /\ tracker_colors \in CalibColours
    /\ hist = HistOf(0)
    /\ last_run = [outcome |-> "none", captured |-> <<>>]
    /\ max_points_per_color = <<>> /\ li_H = None /\ li_mirror = FALSE
    /\ cap_config = <<>> /\ detections = <<>> /\ screen_size = LoopScreen
    /\ out = None /\ m_pc = "idle"
    /\ StoreOff
    /\ FrameOff

\* the iterations of the call, up to its return
NextCal ==
    \/ CalibCancel \/ CalibReadFail \/ CalibWait \/ CalibTimeout
    \/ CalibCapture \/ CalibFinish

SpecCal == InitCal /\ [][NextCal]_vars

\* an iteration during which the wall clock moves on: it ends the call, goes on
\* to the next corner, or finds time.time() - t0 larger by the time step
Advancing ==
    /\ NextCal
    /\ pc' # "calib" \/ idx' # idx \/ elapsed' = ElapsedAfter(TimeStep)

\* the same call when wall-clock time advances: the loop keeps iterating and
\* time.time() does not stand still for ever
FairSpecCal == SpecCal /\ WF_vars(Advancing)

(***************************************************************************)
(* Properties of the frame loop and of calibration (checked under Spec)    *)
(***************************************************************************)
\* the step on which a calibration run returns to the frame loop
RunEnds == pc = "calib" /\ pc' # "calib"

\* the mapping _map_point applies for an active transform: the matrix, or the
\* identity passthrough when there is none
Effective(Hobj) == IF Hobj = NoneRec THEN EyeM ELSE Hobj.m

\* C1 as claimed: when a calibration run ends by Esc or by a corner timeout,
\* the transform the Point Mapper uses afterwards is the one that was active
\* before the run.
C1_AbortKeepsTransform ==
    [][(RunEnds /\ last_run'.outcome \in {"cancel", "timeout"})
            => Effective(input_layer_H') = Effective(input_layer_H)]_vars

\* C2 as claimed: when all four corners are captured and the fit fails, no
\* transform of that run is installed or persisted and the previously active
\* transform stays in use.
C2_FitFailureKeepsTransform ==
    [][(RunEnds /\ last_run'.outcome = "fitfail")
            => /\ Effective(input_layer_H') = Effective(input_layer_H)
               /\ store_file' = store_file]_vars

\* C7: within one tick every colour is mapped with one and the same transform;
\* the active transform does not change during a mapping pass; and when it
\* changes, the Point Mapper refers to another matrix object (the entries of
\* the object in use are not overwritten).
C7_AtomicSwap ==
    [][/\ \A i, j \in DOMAIN mapped_with' : mapped_with'[i] = mapped_with'[j]
       /\ pc = "map" => input_layer_H' = input_layer_H
       /\ (input_layer_H' # input_layer_H /\ input_layer_H # NoneRec)
            => input_layer_H'.id # input_layer_H.id]_vars

\* a tick has mapped every colour after a recalibration replaced a transform
\* that was in use
C7_Witness ==
    /\ pc = "game"
    /\ Len(mapped_with) = Len(TrackedColours)
    /\ last_run.outcome # "none"
    /\ input_layer_H # NoneRec
    /\ input_layer_H.id = 1

\* C8: from the return of a successful calibration run until the next run
\* ends, the store holds the fitted transform together with the four captured
\* camera corners, and every mapping pass uses that transform.
C8_SuccessPersistsAndInstalls ==
    last_run.outcome = "success" =>
        /\ Len(last_run.captured) = 4
        /\ store_file = [H |-> FitM(last_run.captured), corners |-> last_run.captured]
        /\ input_layer_H # NoneRec
        /\ input_layer_H.m = FitM(last_run.captured)
        /\ \A i \in DOMAIN mapped_with : mapped_with[i].m = FitM(last_run.captured)

\* a tick has mapped every colour after a successful run whose corners differ
\* from those of the loaded profile
C8_Witness ==
    /\ pc = "game"
    /\ Len(mapped_with) = Len(TrackedColours)
    /\ last_run.outcome = "success"
    /\ last_run.captured # Target

\* C9 as claimed: the persisted record is created or replaced only by a
\* calibration run that succeeded; a cancelled, timed-out or fit-failed run
\* leaves it exactly as it was.
C9_StoreChangesOnlyOnSuccess ==
    [][store_file' # store_file => (RunEnds /\ last_run'.outcome = "success")]_vars

\* C10 as claimed: whenever the persisted record, or the transform and corner
\* set the engine holds, carries four corners, mapping the canonical screen
\* corners through the inverse of its matrix gives those corners.
C10_CornersBelongToMatrix ==
    /\ (store_file # NoneRec /\ store_file.corners # None)
            => InverseCorners(store_file.H) = store_file.corners
    /\ (H # NoneRec /\ Len(corners_cam) = 4)
            => InverseCorners(H.m) = corners_cam

(***************************************************************************)
(* Start-up, the stages of a tick and the end of the run (under Spec)      *)
(***************************************************************************)
Has(seq, x) == \E i \in DOMAIN seq : seq[i] = x

Count(seq, x) == Cardinality({i \in DOMAIN seq : seq[i] = x})

C14_OpenFailureEndsRun ==
    Has(life, "open_failed") =>
        /\ pc = "done"
        /\ life = <<"open_failed", "error_reported", "pygame.quit">>
        /\ calls = <<>> /\ mapped_with = <<>>
        /\ last_run.outcome = "none"
        /\ H = NoneRec /\ input_layer_H = NoneRec

C14_Witness == pc = "done" /\ Has(life, "open_failed")

\* the calls of a tick that follow a successful read
FrameStages == {"detect", "map_and_select", "FrameData", "on_update", "on_draw", "flip"}

\* C15: a failed cam.read() in the frame loop ends the tick and nothing else:
\* the tick has no detection, mapping, FrameData, on_update, on_draw or
\* present, the failed read is the last call of the tick, the transform (of
\* run_game, of the input layer, of the store) and the preview corners stay
\* as they were, no exception leaves the loop, and control is back at the
\* loop test with `running` as it was.
C15_FailedReadSkipsTick ==
    [][/\ (pc = "read" /\ Has(calls', "read_failed"))
            => /\ pc' = "tick" /\ running' = running
               /\ life' = life
               /\ H' = H /\ input_layer_H' = input_layer_H
               /\ store_file' = store_file /\ corners_cam' = corners_cam
               /\ mapped_with' = mapped_with
       /\ Has(calls', "read_failed")
            => /\ calls'[Len(calls')] = "read_failed"
               /\ \A st \in FrameStages \cup {"read"} : ~Has(calls', st)]_vars

\* a tick ended by a failed read while the loop is to go on
C15_Witness == pc = "tick" /\ running /\ Has(calls, "read_failed")

GameCalls == {"on_event", "on_update", "on_draw"}

\* C16: on_load is called at most once and on_unload at most once; every
\* on_event, on_update and on_draw call is made after the one on_load call
\* and before on_unload; a run that called on_load has called on_unload
\* exactly once when it is over, however the loop ended; and nothing is called
\* after on_unload.
C16_LoadFirstUnloadLast ==
    [][/\ Count(life', "on_load") <= 1 /\ Count(life', "on_unload") <= 1
       /\ (\E i \in (Len(calls) + 1)..Len(calls') : calls'[i] \in GameCalls)
            => Count(life, "on_load") = 1 /\ Count(life', "on_unload") = 0
       /\ (pc' = "done" /\ Has(life', "on_load")) => Count(life', "on_unload") = 1
       /\ Has(life', "on_unload") => pc' = "done"
       /\ Has(life, "on_unload") => calls' = calls]_vars

\* a run is over whose loop was left by an exception of on_draw
C16_Witness ==
    /\ pc = "done" /\ Has(life, "exception") /\ Has(life, "on_unload")
    /\ Has(calls, "on_draw")

\* the stages of a tick whose read succeeded, in the order claimed
FixedOrder ==
    <<"read", "detect", "map_and_select", "FrameData", "on_update", "on_draw", "flip">>

NotEvent(c) == c # "on_event"

\* the calls of the tick after its event part
FrameCalls == SelectSeq(calls, NotEvent)

\* C17: the calls of a tick after a successful read are a prefix of read,
\* detect, map_and_select, FrameData, on_update, on_draw, present (so each is
\* made at most once, on_draw only after on_update, on_update only after the
\* FrameData of this tick), and a tick that gets to its end without an
\* exception has made them all.
C17_StagesInFixedOrder ==
    /\ \/ FrameCalls = <<"read_failed">>
       \/ /\ Len(FrameCalls) <= Len(FixedOrder)
          /\ FrameCalls = Take(FixedOrder, Len(FrameCalls))
    /\ pc = "game" => FrameCalls = Take(FixedOrder, 3)
    /\ (pc = "tick" /\ Has(calls, "read")) => FrameCalls = FixedOrder
    /\ \A i, j \in DOMAIN calls :
          (i < j /\ calls[i] # "on_event") => calls[j] # "on_event"

\* a tick with an event and a successful read has got to its end
C17_Witness == pc = "tick" /\ Has(calls, "flip") /\ Has(calls, "on_event")

LoopPcs == {"tick", "events", "calib", "read", "map", "game"}

\* C18: the handler of a QUIT event or of an Escape key press leaves `running`
\* false; once false it stays false; with `running` false the loop test starts
\* no further tick but goes to the finally block; and the finally block calls
\* cam.close(), tracker.teardown(), game.on_unload() in this order.
C18_QuitEndsLoop ==
    [][/\ (pc = "events" /\ Head(events) \in {"QUIT", "K_ESCAPE"}) => ~running'
       /\ (pc \in LoopPcs /\ ~running) => ~running'
       /\ (pc = "tick" /\ ~running) => pc' = "finally"
       /\ (pc = "tick" /\ running) => pc' \in {"events", "read"}
       /\ pc = "finally"
            => /\ pc' = "done"
               /\ life' = life \o <<"cam.close", "tracker.teardown", "on_unload",
                                    "pygame.quit">>]_vars

\* the loop was left through the loop test and the cleanup has run
C18_Witness ==
    /\ pc = "done" /\ ~running /\ ~Has(life, "exception")
    /\ Has(life, "cam.close")

(***************************************************************************)
(* Properties of one calibration run (checked under SpecCal)               *)
(***************************************************************************)
\* the step on which auto_calibrate attempts the fit
FitAttempted ==
    pc = "calib" /\ pc' # "calib" /\ last_run'.outcome \in {"success", "fitfail"}

\* C19: while the run waits, idx is the number of corners captured so far and
\* the i-th captured point was seen while corner i was shown; a step leaves
\* idx and the captured points alone or captures corner idx and goes on to
\* corner idx + 1; the fit is attempted only on the step that captures the
\* fourth point; and the fitted matrix pairs the i-th captured point with the
\* i-th canonical screen corner.
C19_CornersInOrder ==
    [][/\ pc' = "calib"
            => /\ idx' \in 0..3 /\ Len(detected_cam') = idx'
               /\ \A i \in 1..idx' : detected_cam'[i] \in CamCandidates(i - 1)
       /\ (pc = "calib" /\ pc' = "calib")
            => \/ idx' = idx /\ detected_cam' = detected_cam
               \/ /\ idx' = idx + 1
                  /\ SubSeq(detected_cam', 1, idx) = detected_cam
       /\ FitAttempted
            => /\ idx = 3 /\ Len(detected_cam) = 3
               /\ Len(corners_cam') = 4
               /\ SubSeq(corners_cam', 1, 3) = detected_cam
               /\ \A i \in 1..4 : corners_cam'[i] \in CamCandidates(i - 1)
       /\ (FitAttempted /\ last_run'.outcome = "success")
            => /\ last_run'.captured = corners_cam'
               /\ H'.m = FitM(corners_cam')
               /\ \A i \in 1..4 : InverseCorners(H'.m)[i] = corners_cam'[i]
       /\ (pc = "calib" /\ pc' # "calib" /\ ~FitAttempted) => H'.m = EyeM]_vars

\* a run has returned the fit of the four corners as the camera shows them
C19_Witness ==
    /\ pc # "calib" /\ last_run.outcome = "success"
    /\ last_run.captured = Target

\* the step on which a corner is captured
CornerCaptured == pc = "calib" /\ (idx' = idx + 1 \/ FitAttempted)

\* the position recorded for the corner on that step
RecordedPoint ==
    IF idx' = idx + 1 THEN detected_cam'[idx + 1] ELSE corners_cam'[4]

\* C20 as claimed: a corner is captured only when each of the latest
\* STABLE_FRAMES iterations in a row had a detection within the tolerance of
\* the detection of the iteration before it, and the recorded position is the
\* detection of the last of them.
C20_SixConsecutiveTicks ==
    [][CornerCaptured
            => /\ hist'.run = STABLE_FRAMES
               /\ RecordedPoint = hist'.dets[Len(hist'.dets)]]_vars

\* C20, amended: a corner is captured only when the latest STABLE_FRAMES
\* detections seen for it were each within the tolerance of the detection
\* before it (iterations without a detection may lie between them), and the
\* recorded position is the last of these detections.
C20_SixNearDetections ==
    [][CornerCaptured
            => /\ hist'.corner = idx
               /\ Len(hist'.dets) = STABLE_FRAMES
               /\ \A i \in 1..(STABLE_FRAMES - 1) :
                     SqDist(hist'.dets[i], hist'.dets[i + 1])
                        <= STABLE_PIXELS * STABLE_PIXELS
               /\ RecordedPoint = hist'.dets[STABLE_FRAMES]]_vars

\* a corner has been captured although an iteration without a detection lay
\* between the six detections
C20_Witness ==
    /\ pc = "calib" /\ idx >= 1
    /\ hist.corner = idx - 1
    /\ Len(hist.dets) = STABLE_FRAMES
    /\ hist.run < STABLE_FRAMES

\* C21 as claimed: once the time waited on a corner has passed TIMEOUT without
\* a capture, the run captures no corner and attempts no fit any more; a
\* timeout returns the identity with nothing captured; and the clock of a
\* corner starts at zero when the corner is entered.
C21_TimeoutAbortsRun ==
    [][/\ (pc = "calib" /\ elapsed > TIMEOUT)
            => ~CornerCaptured /\ ~FitAttempted
       /\ (pc = "calib" /\ pc' # "calib" /\ last_run'.outcome = "timeout")
            => H'.m = EyeM /\ last_run'.captured = <<>>
       /\ (pc = "calib" /\ pc' = "calib" /\ idx' # idx) => elapsed' = 0]_vars

\* C22 as claimed: while time advances, every call of auto_calibrate returns.
C22_CalibrationReturns == <>(pc # "calib")

\* C23: the iteration that pumps Esc returns the identity at once, as a
\* cancelled run: it captures no corner, attempts no fit, hands no captured
\* corners to the caller, and the call is over.
C23_EscapeAbortsAtOnce ==
    [][(pc = "calib" /\ hist'.ev = "K_ESCAPE")
            => /\ pc' # "calib"
               /\ last_run'.outcome = "cancel" /\ last_run'.captured = <<>>
               /\ H'.m = EyeM
               /\ ~CornerCaptured /\ ~FitAttempted
               /\ hist'.corner = hist.corner /\ hist'.dets = hist.dets]_vars

\* Esc has ended a run that was waiting on its third corner
C23_Witness ==
    /\ pc # "calib" /\ last_run.outcome = "cancel"
    /\ hist.ev = "K_ESCAPE" /\ hist.corner = 2

\* C24 as claimed: the iteration that pumps a window-quit event ends the
\* calibration run.
C24_QuitAbortsCalibration ==
    [][(pc = "calib" /\ hist'.ev = "QUIT") => pc' # "calib"]_vars

(***************************************************************************)
(* The mirror and the passthrough of LaserInput (checked under SpecMap)    *)
(***************************************************************************)
\* what map_and_select returns for the detections without the mirror
Unmirrored ==
    MapAndSelect(max_points_per_color, li_H, FALSE, detections, screen_size)

\* is the list `pts` the list `plain` with x' = width - 1 - x
MirrorImage(pts, plain) ==
    /\ Len(pts) = Len(plain)
    /\ \A i \in 1..Len(pts) :
          /\ pts[i].x = IntMinusRat(screen_size[1] - 1, plain[i].x)
          /\ pts[i].y = plain[i].y
          /\ pts[i].intensity = plain[i].intensity

\* C26: with the mirror flag set, every emitted point is an examined
\* detection whose transformed position passed the bounds test, emitted at
\* x' = width - 1 - x with y and the intensity unchanged, x being the
\* transformed coordinate; and the list is, point for point, the mirror
\* image of the list the same call returns with the flag clear, so the
\* detections that survive are the same with and without the flag.
C26_MirrorAfterBoundsCheck ==
    (Returned /\ li_mirror) =>
        \A c \in DOMAIN out :
            /\ MirrorImage(out[c], Unmirrored[c])
            /\ \A i \in DOMAIN out[c] :
                  \E j \in DOMAIN detections[c] :
                      LET d == detections[c][j]
                          p == Transformed(li_H, <<d[1], d[2]>>)
                      IN  /\ InBounds(p, screen_size)
                          /\ out[c][i].x = IntMinusRat(screen_size[1] - 1, p[1])
                          /\ out[c][i].y = p[2]
                          /\ out[c][i].intensity = d[3]

\* a mirrored call under a transform has emitted a point whose transformed x
\* lies above width - 1, where a mirror before the bounds test would drop it
C26_Witness ==
    /\ Returned /\ li_mirror /\ li_H = HalfH
    /\ \E c \in DOMAIN out :
          \E i \in DOMAIN out[c] : RatLt(out[c][i].x, RatOfInt(0))

\* the widest screen the mirror is applied for
MaxWidth == 8

\* C27: the mirror of LaserInput._map_point applied twice gives back every
\* transformed x-coordinate, and the mirror of DebugPointInjector._to_logical
\* applied twice gives back every window position, for the narrowest width,
\* the width of the screen and the widest width, on the detections of every
\* call of a mirroring input layer.
C27_MirrorTwiceIsIdentity ==
    (Returned /\ li_mirror) =>
        \A c \in DOMAIN detections :
            \A j \in DOMAIN detections[c] :
                LET d == detections[c][j]
                    px == Transformed(li_H, <<d[1], d[2]>>)[1]
                IN  \A w \in {1, screen_size[1], MaxWidth} :
                        LET l == ToLogical(TRUE, d[1], d[2], w, screen_size[2])
                        IN  /\ MirrorX(w, MirrorX(w, px)) = px
                            /\ ToLogical(TRUE, l[1], l[2], w, screen_size[2])
                                   = <<d[1], d[2]>>

\* a call has mirrored a point away from where its transform put it
C27_Witness ==
    /\ Returned /\ li_mirror /\ li_H # None
    /\ \E c \in DOMAIN out :
          \E i \in DOMAIN out[c] :
              /\ out[c][i].x # Unmirrored[c][i].x
              /\ MirrorX(screen_size[1], out[c][i].x) = Unmirrored[c][i].x

\* is the camera position of detection d inside the screen rectangle
InsideScreen(d, size) ==
    /\ 0 <= d[1] /\ d[1] < size[1]
    /\ 0 <= d[2] /\ d[2] < size[2]

MIN_BLOB_AREA == 8

\* longest contour list findContours gives for one mask
MaxCnts == 3

KeepsAboveOnly(c) == c.area > MIN_BLOB_AREA /\ c.m00 > 0

\* the two tests of the contour loop: a contour c, given by its
\* cv2.contourArea and its moments m00, m10, m01, is skipped when
\* area < MIN_BLOB_AREA and when M["m00"] <= 0
Keeps(c) == c.area >= MIN_BLOB_AREA /\ c.m00 > 0

\* (cx, cy, intensity) = (int(m10 / m00), int(m01 / m00), float(area))
PointOf(c) == <<c.m10 \div c.m00, c.m01 \div c.m00, c.area>>

\* the contour loop: `points` in the order of the contours
RECURSIVE PointsOf(_)
PointsOf(cs) ==
    IF cs = <<>> THEN <<>>
    ELSE IF Keeps(Head(cs)) THEN <<PointOf(Head(cs))>> \o PointsOf(Tail(cs))
         ELSE PointsOf(Tail(cs))

RECURSIVE InsertByAreaAsc(_, _)
InsertByAreaAsc(p, s) ==
    IF s = <<>> THEN <<p>>
    ELSE IF Head(s)[3] <= p[3] THEN <<Head(s)>> \o InsertByAreaAsc(p, Tail(s))
         ELSE <<p>> \o s

\* insertion of p into a list sorted by non-increasing p[2] of the source
\* (the third component), after the elements equal to it (list.sort is stable)
RECURSIVE InsertByAreaDesc(_, _)
InsertByAreaDesc(p, s) ==
    IF s = <<>> THEN <<p>>
    ELSE IF Head(s)[3] >= p[3] THEN <<Head(s)>> \o InsertByAreaDesc(p, Tail(s))
         ELSE <<p>> \o s

\* points.sort(key=lambda p: p[2], reverse=True)
RECURSIVE SortByAreaDesc(_)
SortByAreaDesc(s) ==
    IF s = <<>> THEN <<>>
    ELSE InsertByAreaDesc(s[Len(s)], SortByAreaDesc(SubSeq(s, 1, Len(s) - 1)))

\* ColorTracker.detect: out[color] for every colour of self.colors
Detect(contours) ==
    [color \in DOMAIN contours |-> SortByAreaDesc(PointsOf(contours[color]))]

(***************************************************************************)
(* SpecFrame: the frame part of one tick of run_game(mirror = mirror_flag) *)
(* on a frame whose masks have the contours cnts                           *)
(***************************************************************************)
\* contours: below, at and above the minimum area, one without mass, two of
\* equal area
Contours ==
    { [area |-> 5, m00 |-> 5, m10 |-> 5, m01 |-> 5],
      [area |-> 7, m00 |-> 7, m10 |-> 21, m01 |-> 7],
      [area |-> 8, m00 |-> 8, m10 |-> 8, m01 |-> 8],
      [area |-> 8, m00 |-> 8, m10 |-> 56, m01 |-> 8],
      [area |-> 9, m00 |-> 0, m10 |-> 0, m01 |-> 0],
      [area |-> 200, m00 |-> 200, m10 |-> 600, m01 |-> 200] }

\* the colour names DEFAULT_RANGES has HSV ranges for
RangedColours == {"red", "green", "blue"}

\* cnts of detect for one colour: _mask_for_color gives an all-zero mask for a
\* colour without ranges, in which findContours finds nothing; for the other
\* colours the contours are what the frame shows
ContoursOfMask(color, found) == IF color \in RangedColours THEN found ELSE <<>>

\* the tracker's colours: two with ranges and one without
FrameColours == {"red", "green", "amber"}

ContourMaps ==
    { [c \in FrameColours |-> ContoursOfMask(c, IF c = "red" THEN l ELSE g)] :
        l \in SeqsUpTo(Contours, MaxCnts),
        g \in { <<>>, << [area |-> 8, m00 |-> 8, m10 |-> 8, m01 |-> 8] >> } }

\* max_points_per_color of the run
FrameCaps == << <<"red", 2>>, <<"green", 1>> >>

\* the mirror flag of the input layer run_game builds:
\* LaserInput(max_points_per_color=..., H=H) passes no mirror, so __init__
\* takes its default, and run_game never calls set_mirror
InputLayerMirror(mirror) == FALSE

InitFrame ==
    /\ LoopOff
    /\ StoreOff
    /\ DebugOff
    /\ GamesOff
    /\ mirror_flag \in BOOLEAN
    /\ cnts \in ContourMaps
    /\ flipped = FALSE
    /\ cap_config = FrameCaps
    /\ max_points_per_color = NormaliseCaps(cap_config)
    /\ li_H \in {None, HalfH}
    /\ li_mirror = InputLayerMirror(mirror_flag)
    /\ detections = <<>>
    /\ screen_size \in ScreenSizes
    /\ out = None
    /\ m_pc = "detect"

\* detections = tracker.detect(frame)
FrameDetect ==
    /\ m_pc = "detect"
    /\ detections' = Detect(cnts)
    /\ m_pc' = "input"
    /\ UNCHANGED <<max_points_per_color, li_H, li_mirror, cap_config, screen_size, out>>
    /\ UNCHANGED <<framevars, sidevars>>
    /\ UNCHANGED <<loopvars, calvars, last_run, storevars>>

FramePresentOnlyWithPoints ==
    /\ m_pc = "returned"
    /\ \E c \in DOMAIN out : out[c] # <<>>
    /\ flipped' = mirror_flag
    /\ m_pc' = "presented"
    /\ calls' = calls \o GameStages
    /\ UNCHANGED <<max_points_per_color, li_H, li_mirror, cap_config, detections,
                   screen_size, out, mirror_flag, cnts, sidevars>>
    /\ UNCHANGED <<pc, running, events, H, input_layer_H, corners_cam, store_file,
                   color_i, mapped_with, life>>
    /\ UNCHANGED <<calvars, last_run, storevars>>

\* FrameData is built from the mapped points, the game updates and draws on
\* render_surface; if mirror: the flipped surface is blitted to the screen;
\* pygame.display.flip()
FramePresent ==
    /\ m_pc = "returned"
    /\ flipped' = mirror_flag
    /\ m_pc' = "presented"
    /\ calls' = calls \o GameStages
    /\ UNCHANGED <<max_points_per_color, li_H, li_mirror, cap_config, detections,
                   screen_size, out, mirror_flag, cnts, sidevars>>
    /\ UNCHANGED <<pc, running, events, H, input_layer_H, corners_cam, store_file,
                   color_i, mapped_with, life>>
    /\ UNCHANGED <<calvars, last_run, storevars>>

NextFrame == FrameDetect \/ CallMapAndSelect \/ FramePresent

SpecFrame == InitFrame /\ [][NextFrame]_vars

\* C25 as claimed: at the end of a tick of a run started with the mirror
\* flag, the points the game was given are the mirror images of the mapped
\* detections and the frame shown is flipped; without the flag the points are
\* the mapped detections themselves and the frame is not flipped.
C25_MirrorFlagMirrorsPoints ==
    m_pc = "presented"
        => /\ flipped = mirror_flag
           /\ \A c \in DOMAIN out :
                 IF mirror_flag THEN MirrorImage(out[c], Unmirrored[c])
                 ELSE out[c] = Unmirrored[c]

\* detect has returned
Detected == m_pc \in {"input", "returned", "presented"}

\* the contours of colour c that are at least MIN_BLOB_AREA large and have mass
BigEnough(c) ==
    {j \in DOMAIN cnts[c] : cnts[c][j].area >= MIN_BLOB_AREA /\ cnts[c][j].m00 > 0}

\* C29: detect returns a list for every configured colour, each ordered by
\* non-increasing intensity, so that the first element of a list has the area
\* of the largest blob of the colour.
C29_DetectSortedByArea ==
    Detected =>
        /\ DOMAIN detections = DOMAIN cnts
        /\ \A c \in DOMAIN detections :
              /\ \A i \in 1..(Len(detections[c]) - 1) :
                    detections[c][i][3] >= detections[c][i + 1][3]
              /\ \A j \in BigEnough(c) :
                    /\ detections[c] # <<>>
                    /\ detections[c][1][3] >= cnts[c][j].area

\* detect has put a large blob found after a small one in front of it
C29_Witness ==
    /\ Detected
    /\ \E c \in DOMAIN cnts :
          /\ Len(cnts[c]) >= 2
          /\ cnts[c][1].area = 8 /\ cnts[c][1].m00 > 0
          /\ cnts[c][2].area = 200
          /\ Len(detections[c]) >= 2
          /\ detections[c][1][3] = 200
          /\ detections[c][2][3] = 8

\* the detection of a contour k: its centroid, truncated, and its area
DetectionOf(k) == <<k.m10 \div k.m00, k.m01 \div k.m00, k.area>>

\* C30: for every colour the detections are exactly the contours whose area
\* is at least MIN_BLOB_AREA and whose zeroth moment is positive, one
\* detection each, at the contour's centroid and with its area as intensity;
\* the other contours give no detection.
C30_DetectionIffBigEnough ==
    Detected =>
        \A c \in DOMAIN cnts :
            /\ c \in DOMAIN detections
            /\ Len(detections[c]) = Cardinality(BigEnough(c))
            /\ \A j \in BigEnough(c) :
                  Cardinality({i \in DOMAIN detections[c] :
                                  detections[c][i] = DetectionOf(cnts[c][j])})
                    = Cardinality({k \in BigEnough(c) :
                                  DetectionOf(cnts[c][k]) = DetectionOf(cnts[c][j])})

\* a region of area 200, one of area 5 and one of area 9 without mass have
\* given exactly one detection
C30_Witness ==
    /\ Detected
    /\ \E c \in DOMAIN cnts :
          /\ {cnts[c][j].area : j \in DOMAIN cnts[c]} = {5, 9, 200}
          /\ Len(detections[c]) = 1
          /\ detections[c][1][3] = 200

\* C31: on a tick where a tracked colour has no blob (no contour that is big
\* enough, or no HSV ranges at all), detect returns the empty list for the
\* colour, map_and_select returns the empty list for it, the tick goes on to
\* the game, and on_update and on_draw have been called once each by the time
\* the frame is presented.
C31_NothingDetectedIsNoError ==
    \A c \in DOMAIN cnts :
        BigEnough(c) = {} =>
            /\ Detected => c \in DOMAIN detections /\ detections[c] = <<>>
            /\ m_pc \in {"returned", "presented"}
                  => c \in DOMAIN out /\ out[c] = <<>>
            /\ m_pc = "returned" => ENABLED FramePresent
            /\ m_pc = "presented"
                  => Count(calls, "on_update") = 1 /\ Count(calls, "on_draw") = 1

\* a frame without any blob, for the ranged colours and for the colour
\* without ranges, has been presented after the game was updated and drawn
C31_Witness ==
    /\ m_pc = "presented"
    /\ "amber" \in DOMAIN cnts
    /\ \A c \in DOMAIN cnts : BigEnough(c) = {} /\ out[c] = <<>>
    /\ cnts["red"] # <<>>
    /\ Has(calls, "on_update") /\ Has(calls, "on_draw")

\* the detection the iteration of this step saw (when it saw one)
SeenNow == hist'.dets[Len(hist'.dets)]

\* the counter after a detection at d, by the rule of the claim
CounterRule(d) ==
    IF last = None \/ SqDist(d, last) > STABLE_PIXELS * STABLE_PIXELS
    THEN 1 ELSE stable + 1

\* C32: while the run waits on a corner, an iteration with a detection sets
\* the counter to 1 when the corner has no earlier detection or the detection
\* is more than STABLE_PIXELS (Euclidean) from the last one, and adds 1
\* otherwise, and the detection becomes the last one; an iteration without a
\* detection leaves both alone; a corner is captured exactly by a detection
\* that brings the counter to STABLE_FRAMES; and a new corner starts with the
\* counter at 0 and no last position.
C32_CounterRule ==
    [][(pc = "calib" /\ hist'.ev # "K_ESCAPE")
            => /\ (pc' = "calib" /\ idx' = idx /\ hist'.run >= 1)
                    => /\ stable' = CounterRule(SeenNow)
                       /\ stable' < STABLE_FRAMES
                       /\ last' = SeenNow
               /\ (pc' = "calib" /\ idx' = idx /\ hist'.run = 0)
                    => stable' = stable /\ last' = last
               /\ CornerCaptured => CounterRule(SeenNow) >= STABLE_FRAMES
               /\ (pc' = "calib" /\ idx' # idx)
                    => stable' = 0 /\ last' = None]_vars

\* on the third corner the counter has fallen back to 1 for a detection that
\* is within the tolerance along each axis but not in Euclidean distance, and
\* the corners before it were captured with the counter starting from 0
C32_Witness ==
    /\ pc = "calib" /\ idx = 2
    /\ last = Diagonal /\ stable = 1
    /\ Len(hist.dets) >= 3
    /\ hist.dets[Len(hist.dets) - 1] = Target[3]
    /\ hist.dets[Len(hist.dets) - 2] = Target[3]
    /\ detected_cam[2] = Edge

\* the first max(1, 3 * cap) entries of the colour's detection list
Examined(c) ==
    SubSeq(detections[c], 1,
           Min(Len(detections[c]), Max(1, 3 * ConfiguredCap(c))))

\* the point map_and_select emits for detection d
EmittedFor(d) ==
    LET m == MapPoint(li_H, li_mirror, <<d[1], d[2]>>, screen_size)
    IN  [x |-> m[1], y |-> m[2], intensity |-> d[3]]

\* C33: for a colour with cap N > 0, every point of the output is the mapping
\* of one of the first max(1, 3N) detections of the colour's list, no
\* examined detection being used more often than it occurs there; the output
\* has as many points as examined detections map inside the screen, up to N;
\* and so exactly N whenever at least N of the examined detections map inside.
C33_ExaminesFirstThreeN ==
    Returned =>
        \A c \in DOMAIN out :
            ConfiguredCap(c) > 0 =>
                LET ex == Examined(c)
                    inside == {j \in DOMAIN ex :
                                  InBounds(Transformed(li_H, <<ex[j][1], ex[j][2]>>),
                                           screen_size)}
                    em == {<<j, EmittedFor(ex[j])>> : j \in inside}
                    n == Cardinality(inside)
                IN  /\ \A i \in DOMAIN out[c] :
                          Cardinality({k \in DOMAIN out[c] : out[c][k] = out[c][i]})
                            <= Cardinality({e \in em : e[2] = out[c][i]})
                    /\ Len(out[c]) = Min(ConfiguredCap(c), n)
                    /\ n >= ConfiguredCap(c) => Len(out[c]) = ConfiguredCap(c)

\* cap 1 and four detections: the fourth, the strongest and inside the screen,
\* is not examined, and the output is the one weaker detection among the first
\* three that maps inside
C33_Witness ==
    /\ Returned
    /\ \E c \in DOMAIN out :
          /\ ConfiguredCap(c) = 1
          /\ Len(detections[c]) = 4
          /\ NumInBounds(Take(detections[c], 3)) = 1
          /\ NumInBounds(detections[c]) = 2
          /\ detections[c][4][3] = 90
          /\ Len(out[c]) = 1
          /\ out[c][1].intensity = 50

\* the step on which auto_calibrate returns
CalibReturned == pc = "calib" /\ pc' # "calib"

\* C34: whatever way the call ends, the value auto_calibrate returns is a
\* matrix and not None: the identity when the run was cancelled, timed out
\* or the fit gave nothing, and otherwise the homography fitted to the four
\* captured camera points and the canonical screen corners.
C34_AlwaysReturnsMatrix ==
    [][CalibReturned
            => /\ H' # NoneRec /\ H'.m # NoneRec
               /\ last_run'.outcome \in {"cancel", "timeout", "fitfail", "success"}
               /\ last_run'.outcome \in {"cancel", "timeout", "fitfail"}
                     => H'.m = EyeM
               /\ last_run'.outcome = "success"
                     => /\ H'.m = FitM(corners_cam')
                        /\ H'.m # EyeM
                        /\ ~Degenerate(corners_cam')
               /\ last_run'.outcome = "fitfail" => Degenerate(corners_cam')]_vars

\* a run whose fit gave nothing has returned the identity
C34_Witness ==
    /\ pc # "calib" /\ last_run.outcome = "fitfail"
    /\ H.m = EyeM /\ Len(corners_cam) = 4

\* C35: a load that returns after a save was begun (the save has then run to
\* its end) returns the matrix of that save and its corners: the same four
\* points in the same order when the save had corners, and None when it had
\* none, whatever the record before the save held.
C35_LoadReturnsLastSave ==
    (st_job # NoneRec /\ st_loaded.kind = "returned") =>
        /\ st_loaded.value[1] # NoneRec
        /\ st_loaded.value[1].m = st_job.H
        /\ st_job.corners = None => st_loaded.value[2] = None
        /\ st_job.corners # None
              => /\ Len(st_loaded.value[2]) = 4
                 /\ \A i \in 1..4 : st_loaded.value[2][i] = st_job.corners[i]

\* a save without corners has replaced a record with corners, and the load
\* after it has returned no corners
C35_Witness ==
    /\ st_job # NoneRec /\ st_job.corners = None
    /\ st_prev[StorePath(st_job.by)] = CompleteFile([H |-> FitM(Target),
                                                     corners |-> Target])
    /\ st_loaded.kind = "returned"
    /\ st_loaded.value[2] = None

(***************************************************************************)
(* DebugPointInjector (SpecDebug): mouse events and emit_points            *)
(***************************************************************************)
\* _BTN_NAME.get(event.button): "" stands for None
BtnName(button) ==
    CASE button = 1 -> "left" [] button = 2 -> "middle" [] button = 3 -> "right"
      [] OTHER -> ""

\* debug_manifest["buttons"] of the model: two buttons share a colour, the
\* middle button has none
DebugButtons == [left |-> "red", right |-> "red"]

\* self.buttons.get(btn_name): "" stands for None
ColourOf(name) == IF name \in DOMAIN DebugButtons THEN DebugButtons[name] ELSE ""

\* float(debug_manifest.get("intensity", 9999))
DebugIntensity == 9999

\* btn_name in self._points
Holds(points, name) == \E i \in DOMAIN points : points[i][1] = name

\* self._points[btn_name] = (lx, ly): a key already there keeps its place
PutPoint(points, name, pos) ==
    IF Holds(points, name)
    THEN [i \in DOMAIN points |->
             IF points[i][1] = name THEN <<name, pos>> ELSE points[i]]
    ELSE Append(points, <<name, pos>>)

\* del self._points[btn_name]
RECURSIVE DelPoint(_, _)
DelPoint(points, name) ==
    IF points = <<>> THEN <<>>
    ELSE IF Head(points)[1] = name THEN DelPoint(Tail(points), name)
         ELSE <<Head(points)>> \o DelPoint(Tail(points), name)

\* MOUSEMOTION: every held button gets the new position
MoveAll(points, pos) == [i \in DOMAIN points |-> <<points[i][1], pos>>]

AfterFocusLostKeeps(points) == points

\* WINDOWFOCUSLOST: self._points.clear()
AfterFocusLost(points) == <<>>

\* DebugPointInjector.handle_pygame_event: self._points afterwards
HandlePygameEvent(enabled, mirror, points, ev, size) ==
    LET l == ToLogical(mirror, ev.pos[1], ev.pos[2], size[1], size[2])
        name == BtnName(ev.button)
    IN  IF ~enabled THEN points
        ELSE CASE ev.type = "MOUSEBUTTONDOWN" ->
                    IF ColourOf(name) # "" THEN PutPoint(points, name, l)
                    ELSE points
               [] ev.type = "MOUSEBUTTONUP" ->
                    IF Holds(points, name) THEN DelPoint(points, name) ELSE points
               [] ev.type = "MOUSEMOTION" ->
                    IF points # <<>> THEN MoveAll(points, l) ELSE points
               [] ev.type = "WINDOWFOCUSLOST" -> AfterFocusLost(points)
               [] OTHER -> points

\* the points emit_points appends for one colour, in the order of the items
RECURSIVE EmittedOf(_, _)
EmittedOf(points, color) ==
    IF points = <<>> THEN <<>>
    ELSE LET rest == EmittedOf(Tail(points), color)
             p == Head(points)
         IN  IF ColourOf(p[1]) = color
             THEN <<[x |-> p[2][1], y |-> p[2][2], intensity |-> DebugIntensity]>>
                      \o rest
             ELSE rest

\* DebugPointInjector.emit_points: {} when disabled or nothing is held, else
\* colour -> list of points for the colours of the held buttons
EmitPoints(enabled, points) ==
    IF ~enabled \/ points = <<>> THEN <<>>
    ELSE [c \in {ColourOf(points[i][1]) : i \in DOMAIN points} \ {""}
             |-> EmittedOf(points, c)]

\* mouse and window events: type, button and window position
MousePositions == {<<0, 0>>, <<2, 1>>}

MouseEvents ==
    [type : {"MOUSEBUTTONDOWN", "MOUSEBUTTONUP", "MOUSEMOTION",
             "WINDOWFOCUSLOST", "KEYDOWN"},
     button : 1..4, pos : MousePositions]

\* the buttons held after the event, by the events alone: a press of a button
\* that has a colour holds it at the event's position, a release lets it go, a
\* focus loss lets every button go, a motion moves every held button
HeldAfter(held, ev) ==
    CASE ev.type = "MOUSEBUTTONDOWN" ->
            IF ColourOf(BtnName(ev.button)) # ""
            THEN [b \in DOMAIN held \cup {ev.button} |->
                     IF b = ev.button THEN ev.pos ELSE held[b]]
            ELSE held
      [] ev.type = "MOUSEBUTTONUP" ->
            [b \in DOMAIN held \ {ev.button} |-> held[b]]
      [] ev.type = "MOUSEMOTION" -> [b \in DOMAIN held |-> ev.pos]
      [] ev.type = "WINDOWFOCUSLOST" -> <<>>
      [] OTHER -> held

\* an injector has been built, enabled or not, for a mirrored window or not
InitDebug ==
    /\ LoopOff
    /\ StoreOff
    /\ max_points_per_color = <<>> /\ li_H = None /\ li_mirror = FALSE
    /\ cap_config = <<>> /\ detections = <<>>
    /\ screen_size \in ScreenSizes
    /\ out = None /\ m_pc = "idle"
    /\ cnts = <<>> /\ flipped = FALSE
    /\ mirror_flag \in BOOLEAN
    /\ dbg_enabled \in BOOLEAN
    /\ dbg_points = <<>>
    /\ dbg_held = <<>>
    /\ dbg_out = <<>>
    /\ GamesOff

\* injector.handle_pygame_event(event, screen_size)
DebugHandleEvent ==
    \E ev \in MouseEvents :
        /\ dbg_points' = HandlePygameEvent(dbg_enabled, mirror_flag, dbg_points,
                                           ev, screen_size)
        /\ dbg_held' = HeldAfter(dbg_held, ev)
        /\ UNCHANGED <<dbg_enabled, dbg_out>>
        /\ UNCHANGED <<max_points_per_color, li_H, li_mirror, cap_config,
                       detections, screen_size, out, m_pc, framevars, gamevars,
                   tracker_colors>>
        /\ UNCHANGED <<loopvars, calvars, last_run, storevars>>

\* injector.emit_points()
DebugEmit ==
    /\ dbg_out' = EmitPoints(dbg_enabled, dbg_points)
    /\ UNCHANGED <<dbg_enabled, dbg_points, dbg_held>>
    /\ UNCHANGED <<max_points_per_color, li_H, li_mirror, cap_config,
                   detections, screen_size, out, m_pc, framevars, gamevars,
                   tracker_colors>>
    /\ UNCHANGED <<loopvars, calvars, last_run, storevars>>

NextDebug == DebugHandleEvent \/ DebugEmit

SpecDebug == InitDebug /\ [][NextDebug]_vars

\* the held buttons of colour c
HeldOf(c) == {b \in DOMAIN dbg_held : ColourOf(BtnName(b)) = c}

\* the colours of the configured buttons
DebugColours == {DebugButtons[n] : n \in DOMAIN DebugButtons}

\* what emit_points returns in the current state
EmitsNow == EmitPoints(dbg_enabled, dbg_points)

\* the logical position of held button b
HeldAt(b) ==
    ToLogical(mirror_flag, dbg_held[b][1], dbg_held[b][2],
              screen_size[1], screen_size[2])

\* C36: what an enabled injector's emit_points returns has a colour exactly
\* when a button of that colour is held (pressed, and neither released nor
\* followed by a focus loss), with one point for each held button of the
\* colour, at the logical position of that button's latest press or of the
\* latest motion since; a disabled injector's emit_points returns the empty
\* mapping.
C36_EmitsExactlyHeldButtons ==
    IF ~dbg_enabled THEN EmitsNow = <<>>
    ELSE /\ DOMAIN EmitsNow = {c \in DebugColours : HeldOf(c) # {}}
         /\ \A c \in DOMAIN EmitsNow :
               /\ Len(EmitsNow[c]) = Cardinality(HeldOf(c))
               /\ \A b \in HeldOf(c) :
                     \E i \in DOMAIN EmitsNow[c] :
                         /\ <<EmitsNow[c][i].x, EmitsNow[c][i].y>> = HeldAt(b)
                         /\ EmitsNow[c][i].intensity = DebugIntensity

\* emit_points has returned two red points at different positions: one button
\* pressed after the last motion, the other moved or pressed elsewhere
C36_Witness ==
    /\ dbg_enabled
    /\ dbg_out = EmitsNow
    /\ "red" \in DOMAIN dbg_out
    /\ Len(dbg_out["red"]) = 2
    /\ dbg_out["red"][1].x # dbg_out["red"][2].x

(***************************************************************************)
(* whack-a-mole (SpecMole): stages, spawning, hits and misses              *)
(***************************************************************************)
TARGETS_PER_STAGE == 6
HOLD_TO_START_MS == 1000
WM_START_TARGET_RADIUS == 70
START_RADIUS == 90
MIN_RADIUS == 14
HIT_POP_DELAY_MS == 1500
MISS_PENALTY == 0
EDGE_MARGIN == 24

\* ctx.screen_size of the games
GameScreen == <<640, 480>>

RECURSIVE Power(_, _)
Power(b, e) == IF e = 0 THEN 1 ELSE b * Power(b, e - 1)

\* _current_radius as the fraction <<n, d>>:
\* max(MIN_RADIUS, START_RADIUS * RADIUS_DECAY_PER_STAGE ** (stage - 1)), the
\* decay being 3/4
CurrentRadius(stage) ==
    LET n == START_RADIUS * Power(3, stage - 1)
        d == Power(4, stage - 1)
    IN  IF n < MIN_RADIUS * d THEN <<MIN_RADIUS, 1>> ELSE <<n, d>>

\* _current_duration_ms: int(max(MIN_DURATION_SEC, START_DURATION_SEC *
\* DURATION_DECAY_PER_STAGE ** (stage - 1)) * 1000) with 3.0 s, 3/4 and 0.45 s
CurrentDurationMs(stage) ==
    Max(450, (3000 * Power(3, stage - 1)) \div Power(4, stage - 1))

\* _random_position: the two corners of the range random.randint draws from
RandomPositions(radius) ==
    LET margin == (radius[1] \div radius[2]) + EDGE_MARGIN
    IN  {<<margin, margin>>,
         <<Max(margin, GameScreen[1] - margin),
           Max(margin, GameScreen[2] - margin)>>}

\* _spawn_new_mole at position xy
SpawnNewMole(g, now, xy) ==
    [g EXCEPT !.mole = [kind |-> "Mole", x |-> xy[1], y |-> xy[2],
                        r |-> CurrentRadius(g.stage),
                        expires_at_ms |-> now + CurrentDurationMs(g.stage),
                        alive |-> TRUE, missed |-> FALSE],
              !.stage_attempts = @ + 1,
              !.born = @ + 1,
              !.live = @ + 1]

AdvanceStageAlways(g, per_stage) ==
    [g EXCEPT !.stage = @ + 1, !.stage_attempts = 0]

\* _advance_stage_if_needed
AdvanceStageIfNeeded(g, per_stage) ==
    IF g.stage_attempts >= per_stage
    THEN [g EXCEPT !.stage = @ + 1, !.stage_attempts = 0]
    ELSE g

\* _begin_game
BeginGame(g, now, xy) ==
    SpawnNewMole([g EXCEPT !.stage = 1, !.score = 0, !.stage_attempts = 0,
                           !.mole = NoneRec, !.next_spawn_ms = 0,
                           !.state = "Playing"],
                 now, xy)

\* dx * dx + dy * dy <= r * r for the radius <<n, d>> and whole coordinates
InCircle(p, cx, cy, radius) ==
    (p.x - cx) * (p.x - cx) + (p.y - cy) * (p.y - cy)
        <= (radius[1] * radius[1]) \div (radius[2] * radius[2])

\* self.start_center
StartCentre == <<GameScreen[1] \div 2, GameScreen[2] \div 2>>

\* on_update on the start screen
WmUpdateStart(g, now, dt_ms, reds, pick) ==
    LET on_target == \E i \in DOMAIN reds :
                        InCircle(reds[i], StartCentre[1], StartCentre[2],
                                 <<WM_START_TARGET_RADIUS, 1>>)
        hold == IF on_target THEN g.start_hold_ms + dt_ms ELSE 0
        held == [g EXCEPT !.start_hold_ms = hold]
    IN  IF hold >= HOLD_TO_START_MS
        THEN BeginGame(held, now, pick[CurrentRadius(1)])
        ELSE held

\* on_update while playing: the spawn that is due, then the miss check, then
\* the hit test
WmUpdatePlaying(g, now, reds, pick, per_stage) ==
    LET staged == AdvanceStageIfNeeded(g, per_stage)
        g1 == IF g.mole = NoneRec /\ now >= g.next_spawn_ms
              THEN SpawnNewMole(staged, now, pick[CurrentRadius(staged.stage)])
              ELSE g
        m == g1.mole
        gone == [g1 EXCEPT !.mole = NoneRec,
                           !.next_spawn_ms = now + HIT_POP_DELAY_MS,
                           !.live = @ - 1]
    IN  IF m = NoneRec THEN g1
        ELSE IF m.alive /\ now >= m.expires_at_ms
             THEN [gone EXCEPT !.score = @ + MISS_PENALTY]
        ELSE IF m.alive /\ \E i \in DOMAIN reds : InCircle(reds[i], m.x, m.y, m.r)
             THEN [gone EXCEPT !.score = @ + 1]
        ELSE g1

\* WhackAMole.on_update
WmOnUpdate(g, now, dt_ms, reds, pick, per_stage) ==
    IF g.state = "Start" THEN WmUpdateStart(g, now, dt_ms, reds, pick)
    ELSE WmUpdatePlaying(g, now, reds, pick, per_stage)

\* WhackAMole.on_event: space or return starts the game from the start screen
WmOnEvent(g, now, key, pick) ==
    IF g.state = "Start" /\ key \in {"K_SPACE", "K_RETURN"}
    THEN BeginGame(g, now, pick[CurrentRadius(1)])
    ELSE g

\* the values of the option targets_per_stage the runs are checked for
PerStageOptions == {0, 1, 2, TARGETS_PER_STAGE}

\* the frame times of the runs, in ms, and the latest tick a run goes to
FrameMs == {750, 1500}
MaxTicksMs == 9000

\* how random.randint may fall: for each radius one of the two corners
Picks ==
    {[r \in {CurrentRadius(st) : st \in 1..8} |->
         CHOOSE xy \in RandomPositions(r) : (xy[1] = (r[1] \div r[2]) + EDGE_MARGIN) = low]
       : low \in BOOLEAN}

RedPoint(xy) == [x |-> xy[1], y |-> xy[2]]

\* what the frame may show of red: nothing, a point in a corner of the screen,
\* a point on the start target, a point on the mole, a point on each corner
\* of the range the next mole comes from
RedsOfFrame(g) ==
    {<<>>, <<RedPoint(<<0, 0>>)>>, <<RedPoint(StartCentre)>>}
      \cup (IF g.mole # NoneRec
            THEN {<<RedPoint(<<0, 0>>), RedPoint(<<g.mole.x, g.mole.y>>)>>}
            ELSE {<<RedPoint(xy)>> : xy \in RandomPositions(CurrentRadius(g.stage))})

\* WhackAMole.on_load has run
InitMole ==
    /\ LoopOff
    /\ StoreOff
    /\ max_points_per_color = <<>> /\ li_H = None /\ li_mirror = FALSE
    /\ cap_config = <<>> /\ detections = <<>>
    /\ screen_size \in ScreenSizes
    /\ out = None /\ m_pc = "idle"
    /\ mirror_flag = FALSE /\ cnts = <<>> /\ flipped = FALSE
    /\ DebugOff
    /\ ticks = 0
    /\ targets_per_stage \in PerStageOptions
    /\ wm = [state |-> "Start", start_hold_ms |-> 0, stage |-> 1, score |-> 0,
             stage_attempts |-> 0, mole |-> NoneRec, next_spawn_ms |-> 0,
             born |-> 0, live |-> 0]
    /\ wm_stage_moles = 0
    /\ qd = <<>>

\* the moles of the current stage after a step to g
StageMolesAfter(g) ==
    IF g.stage # wm.stage THEN g.born - wm.born
    ELSE wm_stage_moles + (g.born - wm.born)

MoleRest ==
    /\ UNCHANGED <<targets_per_stage, qd>>
    /\ UNCHANGED <<max_points_per_color, li_H, li_mirror, cap_config,
                   detections, screen_size, out, m_pc, framevars, debugvars,
                   tracker_colors>>
    /\ UNCHANGED <<loopvars, calvars, last_run, storevars>>

\* one frame: the clock moves on and the loop calls game.on_update
MoleUpdate ==
    \E dt \in FrameMs, pick \in Picks :
      \E reds \in RedsOfFrame(wm) :
        /\ ticks + dt <= MaxTicksMs
        /\ ticks' = ticks + dt
        /\ wm' = WmOnUpdate(wm, ticks', dt, reds, pick, targets_per_stage)
        /\ wm_stage_moles' = StageMolesAfter(wm')
        /\ MoleRest

\* a key event handed to game.on_event
MoleEvent ==
    \E key \in {"K_SPACE", "K_RETURN", "K_a"}, pick \in Picks :
        /\ wm' = WmOnEvent(wm, ticks, key, pick)
        /\ wm_stage_moles' = StageMolesAfter(wm')
        /\ UNCHANGED ticks
        /\ MoleRest

NextMole == MoleUpdate \/ MoleEvent

SpecMole == InitMole /\ [][NextMole]_vars

\* every mole the game has made belongs to a stage of targets_per_stage moles:
\* the stages before the current one are full, the current one has between
\* one and targets_per_stage moles, and at most one mole is alive, the one the
\* game holds
StagesAreFull ==
    /\ wm.live <= 1
    /\ wm.mole # NoneRec => wm.live = 1 /\ wm.mole.alive
    /\ wm.stage_attempts <= targets_per_stage
    /\ wm_stage_moles <= targets_per_stage
    /\ wm.born = (wm.stage - 1) * targets_per_stage + wm_stage_moles
    /\ wm.born > 0 => wm_stage_moles >= 1

\* C37 as stated, for every value of the option targets_per_stage: at most one
\* mole exists, each stage consists of exactly targets_per_stage moles, and
\* the attempt counter never exceeds targets_per_stage.
C37_StagesOfPerStageMoles == StagesAreFull

\* C37 amended: for a targets_per_stage of at least one, at most one mole
\* exists at a time, each stage consists of exactly targets_per_stage moles
\* (the stage number goes up by one exactly with the mole spawned after
\* targets_per_stage moles of the stage), and the attempt counter never
\* exceeds targets_per_stage.
C37_StagesOfPositivePerStage == targets_per_stage >= 1 => StagesAreFull

\* stage two has begun after two moles, one hit and one missed
C37_Witness ==
    /\ targets_per_stage = 2
    /\ wm.stage = 2
    /\ wm.born = 3
    /\ wm.score = 1
    /\ wm.mole # NoneRec

(***************************************************************************)
(* quick-draw (SpecDraw): the phases of a round and the shots              *)
(***************************************************************************)
QD_START_TARGET_RADIUS == 42
HOLD_TO_READY_MS == 700
READY_MS == 800
SET_MS == 800
DNF_LIMIT_MS == 4000
WIN_FLASH_COUNT == 6
WIN_FLASH_INTERVAL == 120
PLAY_AGAIN_WIDTH == 380
PLAY_AGAIN_HEIGHT == 72
PLAY_AGAIN_HIT_PAD == 6

\* Phase, in the order of its values
Phases == <<"WaitingForReady", "CountdownReady", "CountdownSet", "Armed", "Results">>

\* self.mid_x
MidX == GameScreen[1] \div 2

\* self.left_hold and self.right_hold: centre of the circle
LeftHold == <<GameScreen[1] \div 4, GameScreen[2] \div 2>>
RightHold == <<(GameScreen[1] * 3) \div 4, GameScreen[2] \div 2>>

\* self.play_again_rect as <<x, y, w, h>>
PlayAgainRect ==
    <<(GameScreen[1] - PLAY_AGAIN_WIDTH) \div 2,
      GameScreen[2] - PLAY_AGAIN_HEIGHT - 60, PLAY_AGAIN_WIDTH, PLAY_AGAIN_HEIGHT>>

\* pygame.Rect.inflate(2 * pad, 2 * pad): the rectangle grows around its centre
Inflate(rect, pad) == <<rect[1] - pad, rect[2] - pad, rect[3] + 2 * pad, rect[4] + 2 * pad>>

\* pygame.Rect.collidepoint: the right and the bottom edge are outside
CollidePoint(rect, p) ==
    /\ rect[1] <= p.x /\ p.x < rect[1] + rect[3]
    /\ rect[2] <= p.y /\ p.y < rect[2] + rect[4]

\* ShotResult(time_ms=None, dnf=False, at_xy=None, when_ms=None); a value v
\* that may be None is <<v>>, None is <<>>
NoShot == [time_ms |-> None, dnf |-> FALSE, at_xy |-> None, when_ms |-> None]

\* _init_state
InitState(now) ==
    [phase |-> "WaitingForReady", left_hold_ms |-> 0, right_hold_ms |-> 0,
     left_ready_latched |-> FALSE, right_ready_latched |-> FALSE,
     phase_started_ms |-> now, go_time_ms |-> None, go_delay_ms |-> 0,
     left_result |-> NoShot, right_result |-> NoShot,
     flash_counter |-> 0, last_flash_ms |-> 0, flash_on |-> FALSE,
     restarted |-> TRUE]

\* _points_in_half
RECURSIVE PointsInHalf(_, _)
PointsInHalf(reds, left) ==
    IF reds = <<>> THEN <<>>
    ELSE LET rest == PointsInHalf(Tail(reds), left)
         IN  IF (Head(reds).x < MidX) = left THEN <<Head(reds)>> \o rest ELSE rest

\* _any_point_in_circle(...) is not None
AnyPointInCircle(pts, c, r) ==
    \E i \in DOMAIN pts : InCircle(pts[i], c[1], c[2], <<r, 1>>)

\* _advance_phase
AdvancePhase(g, new_phase, now) ==
    [g EXCEPT !.phase = new_phase, !.phase_started_ms = now]

\* the flashing of the winner's border in Results
Flash(g, now) ==
    IF g.flash_counter < WIN_FLASH_COUNT /\ now - g.last_flash_ms >= WIN_FLASH_INTERVAL
    THEN [g EXCEPT !.flash_on = ~@, !.last_flash_ms = now, !.flash_counter = @ + 1]
    ELSE g

\* on_update in Results: a red point on the padded replay button restarts
UpdateResults(g, now, reds) ==
    IF \E i \in DOMAIN reds :
          CollidePoint(Inflate(PlayAgainRect, PLAY_AGAIN_HIT_PAD), reds[i])
    THEN InitState(now)
    ELSE Flash(g, now)

\* on_update in WaitingForReady
UpdateWaiting(g, now, dt_ms, reds) ==
    LET lp == AnyPointInCircle(PointsInHalf(reds, TRUE), LeftHold,
                               QD_START_TARGET_RADIUS)
        rp == AnyPointInCircle(PointsInHalf(reds, FALSE), RightHold,
                               QD_START_TARGET_RADIUS)
        lh == IF g.left_ready_latched THEN g.left_hold_ms
              ELSE IF lp THEN g.left_hold_ms + dt_ms ELSE 0
        rh == IF g.right_ready_latched THEN g.right_hold_ms
              ELSE IF rp THEN g.right_hold_ms + dt_ms ELSE 0
        g1 == [g EXCEPT !.left_hold_ms = lh, !.right_hold_ms = rh,
                        !.left_ready_latched = @ \/ lh >= HOLD_TO_READY_MS,
                        !.right_ready_latched = @ \/ rh >= HOLD_TO_READY_MS]
    IN  IF g1.left_ready_latched /\ g1.right_ready_latched
        THEN AdvancePhase(g1, "CountdownReady", now)
        ELSE g1

\* on_update in CountdownSet, the go delay being what random.uniform gave
UpdateSet(g, now, delay_ms) ==
    IF now - g.phase_started_ms >= SET_MS
    THEN [AdvancePhase(g, "Armed", now) EXCEPT
              !.go_delay_ms = delay_ms, !.go_time_ms = <<now + delay_ms>>,
              !.left_result = NoShot, !.right_result = NoShot,
              !.flash_counter = 0, !.last_flash_ms = now, !.flash_on = TRUE]
    ELSE g

ShotAlways(result, pts, now, go) ==
    IF pts # <<>>
    THEN [result EXCEPT !.when_ms = <<now>>, !.time_ms = <<now - go>>,
                        !.at_xy = <<pts[1].x, pts[1].y>>]
    ELSE result

\* the first valid shot of a side: taken only while the side has none
Shot(result, pts, now, go) ==
    IF result.when_ms = None /\ pts # <<>>
    THEN [result EXCEPT !.when_ms = <<now>>, !.time_ms = <<now - go>>,
                        !.at_xy = <<pts[1].x, pts[1].y>>]
    ELSE result

\* the DNF check of a side
Dnf(result, now, go) ==
    IF now - go >= DNF_LIMIT_MS /\ result.when_ms = None
    THEN [result EXCEPT !.dnf = TRUE]
    ELSE result

HasOutcome(result) == result.when_ms # None \/ result.dnf

\* on_update in Armed
UpdateArmed(g, now, reds) ==
    LET go == IF g.go_time_ms = None \/ g.go_time_ms = <<0>> THEN now
              ELSE g.go_time_ms[1]
        g1 == [g EXCEPT !.go_time_ms = <<go>>]
        l == Dnf(Shot(g.left_result, PointsInHalf(reds, TRUE), now, go), now, go)
        r == Dnf(Shot(g.right_result, PointsInHalf(reds, FALSE), now, go), now, go)
        g2 == [g1 EXCEPT !.left_result = l, !.right_result = r]
    IN  IF now >= go
        THEN IF HasOutcome(l) /\ HasOutcome(r)
             THEN [AdvancePhase(g2, "Results", now) EXCEPT
                       !.last_flash_ms = now, !.flash_counter = 0, !.flash_on = TRUE]
             ELSE g2
        ELSE g1

\* QuickDraw.on_update
QdOnUpdate(g0, now, dt_ms, reds, delay_ms) ==
    LET g == [g0 EXCEPT !.restarted = FALSE]
    IN  CASE g.phase = "Results" -> UpdateResults(g, now, reds)
          [] g.phase = "WaitingForReady" -> UpdateWaiting(g, now, dt_ms, reds)
          [] g.phase = "CountdownReady" ->
                IF now - g.phase_started_ms >= READY_MS
                THEN AdvancePhase(g, "CountdownSet", now)
                ELSE g
          [] g.phase = "CountdownSet" -> UpdateSet(g, now, delay_ms)
          [] g.phase = "Armed" -> UpdateArmed(g, now, reds)

\* QuickDraw.on_event: space or return restarts at any time
QdOnEvent(g, now, key) ==
    IF key \in {"K_SPACE", "K_RETURN"} THEN InitState(now)
    ELSE [g EXCEPT !.restarted = FALSE]

\* int(random.uniform(GO_DELAY_MIN_SEC, GO_DELAY_MAX_SEC) * 1000): the two ends
GoDelays == {1000, 4000}

\* what the frame may show of red: nothing, a point on either hold circle or
\* on both, points elsewhere in either half, a point on the replay button
QdReds ==
    {<<>>, <<RedPoint(LeftHold)>>, <<RedPoint(RightHold)>>,
     <<RedPoint(LeftHold), RedPoint(RightHold)>>,
     <<RedPoint(<<10, 10>>), RedPoint(LeftHold)>>,
     <<RedPoint(<<630, 10>>)>>,
     <<RedPoint(<<320, 380>>)>>}

\* QuickDraw.on_load has run
InitDraw ==
    /\ LoopOff
    /\ StoreOff
    /\ max_points_per_color = <<>> /\ li_H = None /\ li_mirror = FALSE
    /\ cap_config = <<>> /\ detections = <<>>
    /\ screen_size \in ScreenSizes
    /\ out = None /\ m_pc = "idle"
    /\ mirror_flag = FALSE /\ cnts = <<>> /\ flipped = FALSE
    /\ DebugOff
    /\ ticks = 0
    /\ targets_per_stage = 0 /\ wm = <<>> /\ wm_stage_moles = 0
    /\ qd = [InitState(0) EXCEPT !.restarted = FALSE]

DrawRest ==
    /\ UNCHANGED <<targets_per_stage, wm, wm_stage_moles>>
    /\ UNCHANGED <<max_points_per_color, li_H, li_mirror, cap_config,
                   detections, screen_size, out, m_pc, framevars, debugvars,
                   tracker_colors>>
    /\ UNCHANGED <<loopvars, calvars, last_run, storevars>>

\* one frame: the clock moves on and the loop calls game.on_update
DrawUpdate ==
    \E dt \in FrameMs, reds \in QdReds, delay \in GoDelays :
        /\ ticks + dt <= MaxTicksMs
        /\ ticks' = ticks + dt
        /\ qd' = QdOnUpdate(qd, ticks', dt, reds, delay)
        /\ DrawRest

\* a key event handed to game.on_event
DrawEvent ==
    \E key \in {"K_SPACE", "K_RETURN", "K_a"} :
        /\ qd' = QdOnEvent(qd, ticks, key)
        /\ UNCHANGED ticks
        /\ DrawRest

NextDraw == DrawUpdate \/ DrawEvent

SpecDraw == InitDraw /\ [][NextDraw]_vars

\* the phase that follows phase p in the order of Phases
FollowsInOrder(p, q) == \E i \in 1..(Len(Phases) - 1) : p = Phases[i] /\ q = Phases[i + 1]

\* a side's result stays as it is once its shot is recorded, unless the call
\* restarted the round
ShotKept(before, after, restarted) ==
    before.when_ms # None /\ ~restarted => after = before

\* a recorded shot was seen at or after the go time
ShotAfterGo(g, result) ==
    result.when_ms # None =>
        /\ g.go_time_ms # None
        /\ result.when_ms[1] >= g.go_time_ms[1]
        /\ result.time_ms = <<result.when_ms[1] - g.go_time_ms[1]>>

\* C38: a call of a quick-draw hook either keeps the phase, moves it to the
\* next phase in the order WaitingForReady, CountdownReady, CountdownSet,
\* Armed, Results, or restarts the round in WaitingForReady; while Armed, a
\* frame before the go time changes neither side's result; a recorded shot
\* was seen at or after the go time, and a side's result with a recorded shot
\* stays as it is until a restart.
C38_PhasesInOrderShotsKept ==
    [][ /\ \/ qd'.phase = qd.phase
           \/ FollowsInOrder(qd.phase, qd'.phase)
           \/ (qd'.phase = "WaitingForReady" /\ qd'.restarted)
        /\ (/\ qd.phase = "Armed" /\ ~qd'.restarted /\ qd.go_time_ms # None
            /\ ticks' < qd.go_time_ms[1])
             => (/\ qd'.left_result = qd.left_result
                 /\ qd'.right_result = qd.right_result
                 /\ qd'.phase = "Armed")
        /\ ShotAfterGo(qd', qd'.left_result)
        /\ ShotAfterGo(qd', qd'.right_result)
        /\ ShotKept(qd.left_result, qd'.left_result, qd'.restarted)
        /\ ShotKept(qd.right_result, qd'.right_result, qd'.restarted) ]_vars

\* the round is still armed some frames after the left side's shot, which was
\* the first of two points seen in the left half
C38_Witness ==
    /\ qd.phase = "Armed"
    /\ qd.left_result.when_ms # None
    /\ qd.left_result.at_xy = <<10, 10>>
    /\ qd.right_result.when_ms = None
    /\ ticks >= qd.left_result.when_ms[1] + 1500

(***************************************************************************)
(* The camera of a run that has ended (SpecStartup)                        *)
(***************************************************************************)
\* C39: a run of run_game that has opened the camera has closed it when it
\* is over, whether it returned or an exception left it.
C39_OpenedCameraIsClosed ==
    (pc = "done" /\ Has(life, "open")) => Has(life, "cam.close")

(***************************************************************************)
(* Calibration on a tracker without the colour red (SpecCal)               *)
(***************************************************************************)
TracksRed == \E i \in DOMAIN tracker_colors : tracker_colors[i] = "red"

\* C40: on a tracker whose colours do not include "red", a calibration run
\* captures no corner and counts no detection, whatever the camera shows, and
\* the run has ended, if it has, by cancel or by timeout.
C40_NoRedNoCapture ==
    ~TracksRed =>
        /\ idx = 0 /\ detected_cam = <<>>
        /\ stable = 0 /\ last = None
        /\ last_run.captured = <<>>
        /\ last_run.outcome \in {"none", "cancel", "timeout"}
        /\ pc # "calib" => last_run.outcome \in {"cancel", "timeout"}

\* a run on a tracker without red has ended by timeout
C40_Witness ==
    /\ ~TracksRed
    /\ pc # "calib"
    /\ last_run.outcome = "timeout"

====
